---- MODULE Spec2Model ----
(***************************************************************************)
(* Model of the Cloudflare status -> Google Chat incident bot              *)
(* (src/src/index.ts): the reconciliation pass processIncidents, the KV    *)
(* helpers it uses, the bounded-retry dispatcher and the two handlers.     *)
(*                                                                         *)
(* Time is in milliseconds, as Date.now().  KV values are modelled as      *)
(* tagged records: NoValue (kv.get returned null), Text(t) (a string that  *)
(* is not a JSON object: a decimal number or a legacy ISO timestamp) and   *)
(* Json(r) (the JSON encoding of the record r).                            *)
(***************************************************************************)
EXTENDS Integers, Sequences, FiniteSets, TLC

\* ------------------------------------------------------------------ constants
KV_TTL_DAYS == 30
KV_TTL_SECONDS == KV_TTL_DAYS * 24 * 60 * 60
RECENT_INCIDENT_DAYS == 7
RECENT_INCIDENT_MS == RECENT_INCIDENT_DAYS * 24 * 60 * 60 * 1000
RATE_LIMIT_COOLDOWN_MS == 60000
MAX_RETRIES == 3
DIGEST_THRESHOLD == 3

\* ------------------------------------------------------------------- bounds
\* number of successive handler invocations in one behaviour of Spec
MaxRuns == 2

\* the incident identifiers, in the order the status API lists them
IdOrder == <<"inc1", "inc2", "inc3">>
Ids == {IdOrder[k] : k \in 1..Len(IdOrder)}

\* "postmortem" stands for every status outside STATUS_PRIORITIES
Statuses == {"investigating", "identified", "monitoring", "resolved", "postmortem"}
Impacts == {"none", "minor", "major", "critical"}

\* env.MIN_IMPACT_LEVEL; "" is the unset variable
MinImpactLevels == {"", "major"}

\* the instant of the first invocation
T0 == 2 * RECENT_INCIDENT_MS

\* started_at of an incident: just started, or exactly one recency window ago
StartTimes == {T0, T0 - RECENT_INCIDENT_MS}

\* time between the end of one invocation and the start of the next
Delays == {RATE_LIMIT_COOLDOWN_MS - 1, RATE_LIMIT_COOLDOWN_MS}

\* resolved_at of an incident that is not resolved (null)
NoTime == -1

\* times from start to resolution, in ms: around the minute and the hour, 45
\* and 125 minutes, a day and more
Durations ==
  {0, 1, 59999, 60000, 2700000, 3599999, 3600000, 3660000, 7199999, 7500000,
   7559999, 86400000, 90061001}

\* --------------------------------------------------------------- KV encoding
NoValue == [kind |-> "none"]
Text(t) == [kind |-> "text", text |-> t]
Json(r) == [kind |-> "json", value |-> r]

\* null / undefined of the program
Null == [kind |-> "null"]

\* storedIncident?.status || null, in a ProcessResult
NullStatus == "null"

\* ---------------------------------------------------------- lookup tables
\* a table that ranks a status it does not list above every listed one
STATUS_PRIORITIES_UnknownOnTop(s) ==
  CASE s = "investigating" -> 1
    [] s = "identified" -> 2
    [] s = "monitoring" -> 3
    [] s = "resolved" -> 4
    [] OTHER -> 5

STATUS_PRIORITIES(s) ==
  CASE s = "investigating" -> 1
    [] s = "identified" -> 2
    [] s = "monitoring" -> 3
    [] s = "resolved" -> 4
    [] OTHER -> 0

IMPACT_LEVELS(i) ==
  CASE i = "none" -> 0
    [] i = "minor" -> 1
    [] i = "major" -> 2
    [] i = "critical" -> 3
    [] OTHER -> 0

\* ----------------------------------------------------------- pure helpers
\* getStoredIncident without the fallback: a value that is not JSON reads as
\* no entry
getStoredIncident_Strict(data) ==
  IF data.kind = "json" THEN data.value ELSE Null

\* getStoredIncident: JSON.parse of the stored string, legacy text falls back
getStoredIncident(data) ==
  IF data.kind = "none" THEN Null
  ELSE IF data.kind = "json" THEN data.value
  ELSE [status |-> "identified", timestamp |-> data.text]

\* the second in which KV drops an incident entry: expirationTtl seconds after
\* the put, whose time is the timestamp the entry carries
expiresAt(data) ==
  (IF data.kind = "json" THEN data.value.timestamp ELSE data.text) \div 1000
    + KV_TTL_SECONDS

\* the incident entries KV still serves at time t
Unexpired(kv, t) ==
  [id \in DOMAIN kv |->
     IF kv[id] # NoValue /\ expiresAt(kv[id]) <= t \div 1000 THEN NoValue ELSE kv[id]]

\* batchGetStoredIncidents that files every result under the wrong identifier
batchGetStoredIncidents_Shifted(incidentIds, kv) ==
  [id \in {incidentIds[k] : k \in 1..Len(incidentIds)} |->
     getStoredIncident(kv[incidentIds[1]])]

\* batchGetStoredIncidents: one getStoredIncident per requested id
batchGetStoredIncidents(incidentIds, kv) ==
  [id \in {incidentIds[k] : k \in 1..Len(incidentIds)} |-> getStoredIncident(kv[id])]

\* storeIncident that writes the initial status whatever it is given
storeIncident_Initial(status, t) ==
  Json([status |-> "investigating", timestamp |-> t])

\* storeIncident: the value put under incident:<id>
storeIncident(status, t) ==
  Json([status |-> status, timestamp |-> t])

\* shouldFilterByImpact that also filters an incident exactly at the minimum
shouldFilterByImpact_Inclusive(incident, minImpactLevel) ==
  IF minImpactLevel = "" THEN FALSE
  ELSE IMPACT_LEVELS(incident.impact) <= IMPACT_LEVELS(minImpactLevel)

shouldFilterByImpact(incident, minImpactLevel) ==
  IF minImpactLevel = "" THEN FALSE
  ELSE IMPACT_LEVELS(incident.impact) < IMPACT_LEVELS(minImpactLevel)

\* isRateLimited that still limits exactly one cooldown after the marker
isRateLimited_Inclusive(lastNotification, t) ==
  IF lastNotification.kind = "none" THEN FALSE
  ELSE t - lastNotification.text <= RATE_LIMIT_COOLDOWN_MS

isRateLimited(lastNotification, t) ==
  IF lastNotification.kind = "none" THEN FALSE
  ELSE t - lastNotification.text < RATE_LIMIT_COOLDOWN_MS

getMetrics(data, t) ==
  IF data.kind = "json" THEN data.value
  ELSE [lastRun |-> t, notificationsSent |-> 0, incidentsProcessed |-> 0, errors |-> 0]

\* { ...current, ...updates }
MergeMetrics_Replace(current, updates) ==
  [f \in DOMAIN current |-> IF f \in DOMAIN updates THEN updates[f] ELSE 0]

MergeMetrics(current, updates) ==
  [f \in DOMAIN current |-> IF f \in DOMAIN updates THEN updates[f] ELSE current[f]]

\* Math.pow(2, n)
RECURSIVE Pow2(_)
Pow2(n) == IF n = 0 THEN 1 ELSE 2 * Pow2(n - 1)

\* withRetry over the outcomes of the successive calls of fn (TRUE = returned,
\* FALSE = threw): ok, number of calls made, delays slept between them
RECURSIVE withRetryFrom_GivesUpEarly(_, _, _, _)
withRetryFrom_GivesUpEarly(outcomes, maxRetries, i, delays) ==
  IF i >= maxRetries THEN [ok |-> FALSE, calls |-> i, delays |-> delays]
  ELSE IF outcomes[i + 1] THEN [ok |-> TRUE, calls |-> i + 1, delays |-> delays]
  ELSE IF i >= maxRetries - 2 THEN [ok |-> FALSE, calls |-> i + 1, delays |-> delays]
  ELSE withRetryFrom_GivesUpEarly(outcomes, maxRetries, i + 1,
                                  Append(delays, Pow2(i) * 1000))

RECURSIVE withRetryFrom_OneMore(_, _, _, _)
withRetryFrom_OneMore(outcomes, maxRetries, i, delays) ==
  IF i > maxRetries THEN [ok |-> FALSE, calls |-> i, delays |-> delays]
  ELSE IF outcomes[i + 1] THEN [ok |-> TRUE, calls |-> i + 1, delays |-> delays]
  ELSE IF i = maxRetries THEN [ok |-> FALSE, calls |-> i + 1, delays |-> delays]
  ELSE withRetryFrom_OneMore(outcomes, maxRetries, i + 1,
                             Append(delays, Pow2(i) * 1000))

RECURSIVE withRetryFrom(_, _, _, _)
withRetryFrom(outcomes, maxRetries, i, delays) ==
  IF i >= maxRetries THEN [ok |-> FALSE, calls |-> i, delays |-> delays]
  ELSE IF outcomes[i + 1] THEN [ok |-> TRUE, calls |-> i + 1, delays |-> delays]
  ELSE IF i = maxRetries - 1 THEN [ok |-> FALSE, calls |-> i + 1, delays |-> delays]
  ELSE withRetryFrom(outcomes, maxRetries, i + 1, Append(delays, Pow2(i) * 1000))

withRetry(outcomes, maxRetries) == withRetryFrom(outcomes, maxRetries, 0, <<>>)

\* fetchIncidents: the incidents array of the response, or (request failed or
\* answered with a non-2xx status: ~ok) the error, logged and thrown again
fetchIncidents_Swallow(ok, page) ==
  IF ok THEN [threw |-> FALSE, value |-> page] ELSE [threw |-> FALSE, value |-> <<>>]

fetchIncidents(ok, page) ==
  IF ok THEN [threw |-> FALSE, value |-> page] ELSE [threw |-> TRUE]

\* the remainder operator of the source language: the sign of the dividend
Rem(a, b) == IF a >= 0 THEN a % b ELSE 0 - ((0 - a) % b)

\* formatDuration that rounds the minutes to the nearest one
formatDuration_Rounded(durationMs) ==
  LET hours == durationMs \div (1000 * 60 * 60)
      minutes == (Rem(durationMs, 1000 * 60 * 60) + 30000) \div (1000 * 60)
  IN IF hours > 0 THEN ToString(hours) \o "h " \o ToString(minutes) \o "m"
     ELSE ToString(minutes) \o "m"

formatDuration(durationMs) ==
  LET hours == durationMs \div (1000 * 60 * 60)
      minutes == Rem(durationMs, 1000 * 60 * 60) \div (1000 * 60)
  IN IF hours > 0 THEN ToString(hours) \o "h " \o ToString(minutes) \o "m"
     ELSE ToString(minutes) \o "m"

\* the message a send function builds for a notification: a cards array (what
\* the model keeps of it: kind, incidents, and the duration shown by a
\* resolution card), and nothing beside it
message(n, recent, t) ==
  IF n.kind = "resolved"
  THEN LET incident == CHOOSE inc \in {recent[k] : k \in 1..Len(recent)} :
                         inc.id = n.ids[1]
           startTime == incident.started_at
           endTime == IF incident.resolved_at # NoTime THEN incident.resolved_at ELSE t
       IN [cards |-> [kind |-> n.kind, ids |-> n.ids,
                      duration |-> formatDuration(endTime - startTime)]]
  ELSE [cards |-> [kind |-> n.kind, ids |-> n.ids]]

\* the thread a posted message names: the messages have no thread field, and
\* the webhook URL is used as configured
NoThread == "none"
threadKey(msg) == IF "thread" \in DOMAIN msg THEN msg.thread ELSE NoThread

\* sendNotification: withRetry around the webhook POST
sendNotification(outcomes) == withRetry(outcomes, MAX_RETRIES)

\* ------------------------------------------------------- classification
\* The body of the for loop of processIncidents for one incident: the action
\* reported, the queue the incident is pushed on, whether storeIncident runs.

\* classifyNew that notifies a new incident only while it is being investigated
classifyNew_OnlyInvestigating(incident) ==
  IF incident.status = "investigating"
  THEN [action |-> "new_incident_notification", queue |-> "new", store |-> TRUE]
  ELSE [action |-> "none", queue |-> "none", store |-> TRUE]

\* classifyNew that notifies without recording the incident
classifyNew_NotStored(incident) ==
  IF incident.status # "resolved"
  THEN [action |-> "new_incident_notification", queue |-> "new", store |-> FALSE]
  ELSE [action |-> "none", queue |-> "none", store |-> TRUE]

\* classifyNew that records only the incidents it notifies
classifyNew_SkipResolved(incident) ==
  IF incident.status # "resolved"
  THEN [action |-> "new_incident_notification", queue |-> "new", store |-> TRUE]
  ELSE [action |-> "none", queue |-> "none", store |-> FALSE]

\* lines 809-816: no stored entry
classifyNew(incident) ==
  IF incident.status # "resolved"
  THEN [action |-> "new_incident_notification", queue |-> "new", store |-> TRUE]
  ELSE [action |-> "none", queue |-> "none", store |-> TRUE]

\* classifyExisting that compares the priorities before it looks for a resolution
classifyExisting_PriorityFirst(incident, storedIncident) ==
  IF storedIncident.status = incident.status
  THEN [action |-> "none", queue |-> "none", store |-> FALSE]
  ELSE IF STATUS_PRIORITIES(incident.status) > STATUS_PRIORITIES(storedIncident.status)
          /\ incident.status # "monitoring"
  THEN [action |-> "status_updated", queue |-> "status", store |-> TRUE]
  ELSE IF incident.status = "resolved"
  THEN [action |-> "resolution_notification", queue |-> "resolved", store |-> TRUE]
  ELSE IF incident.status = "monitoring"
  THEN [action |-> "monitoring_notification", queue |-> "monitoring", store |-> TRUE]
  ELSE [action |-> "none", queue |-> "none", store |-> TRUE]

\* classifyExisting that notifies every status change, whatever the priorities
classifyExisting_AnyChange(incident, storedIncident) ==
  IF storedIncident.status # "resolved" /\ incident.status = "resolved"
  THEN [action |-> "resolution_notification", queue |-> "resolved", store |-> TRUE]
  ELSE IF storedIncident.status # "monitoring" /\ incident.status = "monitoring"
  THEN [action |-> "monitoring_notification", queue |-> "monitoring", store |-> TRUE]
  ELSE IF storedIncident.status # incident.status
  THEN [action |-> "status_updated", queue |-> "status", store |-> TRUE]
  ELSE [action |-> "none", queue |-> "none", store |-> FALSE]

\* classifyExisting that applies the generic status-change rule before the
\* monitoring rule
classifyExisting_GenericFirst(incident, storedIncident) ==
  IF storedIncident.status # "resolved" /\ incident.status = "resolved"
  THEN [action |-> "resolution_notification", queue |-> "resolved", store |-> TRUE]
  ELSE IF storedIncident.status # incident.status
  THEN IF STATUS_PRIORITIES(incident.status) > STATUS_PRIORITIES(storedIncident.status)
       THEN [action |-> "status_updated", queue |-> "status", store |-> TRUE]
       ELSE [action |-> "none", queue |-> "none", store |-> TRUE]
  ELSE IF storedIncident.status # "monitoring" /\ incident.status = "monitoring"
  THEN [action |-> "monitoring_notification", queue |-> "monitoring", store |-> TRUE]
  ELSE [action |-> "none", queue |-> "none", store |-> FALSE]

\* classifyExisting that rewrites the entry of an unchanged incident
classifyExisting_Refresh(incident, storedIncident) ==
  IF storedIncident.status # "resolved" /\ incident.status = "resolved"
  THEN [action |-> "resolution_notification", queue |-> "resolved", store |-> TRUE]
  ELSE IF storedIncident.status # "monitoring" /\ incident.status = "monitoring"
  THEN [action |-> "monitoring_notification", queue |-> "monitoring", store |-> TRUE]
  ELSE IF storedIncident.status # incident.status
  THEN IF STATUS_PRIORITIES(incident.status) > STATUS_PRIORITIES(storedIncident.status)
       THEN [action |-> "status_updated", queue |-> "status", store |-> TRUE]
       ELSE [action |-> "none", queue |-> "none", store |-> TRUE]
  ELSE [action |-> "none", queue |-> "none", store |-> TRUE]

\* classifyExisting that records a status only when it notifies it
classifyExisting_KeepRegressed(incident, storedIncident) ==
  IF storedIncident.status # "resolved" /\ incident.status = "resolved"
  THEN [action |-> "resolution_notification", queue |-> "resolved", store |-> TRUE]
  ELSE IF storedIncident.status # "monitoring" /\ incident.status = "monitoring"
  THEN [action |-> "monitoring_notification", queue |-> "monitoring", store |-> TRUE]
  ELSE IF storedIncident.status # incident.status
  THEN IF STATUS_PRIORITIES(incident.status) > STATUS_PRIORITIES(storedIncident.status)
       THEN [action |-> "status_updated", queue |-> "status", store |-> TRUE]
       ELSE [action |-> "none", queue |-> "none", store |-> FALSE]
  ELSE [action |-> "none", queue |-> "none", store |-> FALSE]

\* lines 818-841: a stored entry exists
classifyExisting(incident, storedIncident) ==
  IF storedIncident.status # "resolved" /\ incident.status = "resolved"
  THEN [action |-> "resolution_notification", queue |-> "resolved", store |-> TRUE]
  ELSE IF storedIncident.status # "monitoring" /\ incident.status = "monitoring"
  THEN [action |-> "monitoring_notification", queue |-> "monitoring", store |-> TRUE]
  ELSE IF storedIncident.status # incident.status
  THEN IF STATUS_PRIORITIES(incident.status) > STATUS_PRIORITIES(storedIncident.status)
       THEN [action |-> "status_updated", queue |-> "status", store |-> TRUE]
       ELSE [action |-> "none", queue |-> "none", store |-> TRUE]
  ELSE [action |-> "none", queue |-> "none", store |-> FALSE]

\* classify that records the status of an incident it filters
classify_StoreFiltered(incident, storedIncident, minImpactLevel) ==
  IF shouldFilterByImpact(incident, minImpactLevel)
  THEN [action |-> "filtered", queue |-> "none", store |-> TRUE]
  ELSE IF storedIncident = Null
  THEN classifyNew(incident)
  ELSE classifyExisting(incident, storedIncident)

\* classify that queues a previously unseen incident before it looks at its impact
classify_FilterAfterQueue(incident, storedIncident, minImpactLevel) ==
  IF shouldFilterByImpact(incident, minImpactLevel)
  THEN [action |-> "filtered",
        queue |-> IF storedIncident = Null /\ incident.status # "resolved"
                  THEN "new" ELSE "none",
        store |-> FALSE]
  ELSE IF storedIncident = Null
  THEN classifyNew(incident)
  ELSE classifyExisting(incident, storedIncident)

\* lines 801-842
classify(incident, storedIncident, minImpactLevel) ==
  IF shouldFilterByImpact(incident, minImpactLevel)
  THEN [action |-> "filtered", queue |-> "none", store |-> FALSE]
  ELSE IF storedIncident = Null
  THEN classifyNew(incident)
  ELSE classifyExisting(incident, storedIncident)

\* a filter that lets every incident through, however old
isRecent_Forever(incident, t) == TRUE

\* recentIncidents: incidents.filter(age < RECENT_INCIDENT_MS)
isRecent_Inclusive(incident, t) == t <= incident.started_at + RECENT_INCIDENT_MS

\* age < RECENT_INCIDENT_MS with age = t - started_at, written with started_at
\* on the right so that an age of a month or more is never computed (it does
\* not fit in the 32 bits of a model value; Date.now() has no such limit)
isRecent(incident, t) == t < incident.started_at + RECENT_INCIDENT_MS

\* one notification promise per incident of a queue
Individual(kind, queue) ==
  [k \in 1..Len(queue) |-> [kind |-> kind, ids |-> <<queue[k]>>]]

\* buildNotifications that digests only above the threshold
buildNotifications_Above(newQ, resolvedQ, monitoringQ, statusQ) ==
  (IF Len(newQ) > 0
   THEN IF Len(newQ) > DIGEST_THRESHOLD
        THEN <<[kind |-> "digest", ids |-> newQ]>>
        ELSE Individual("new", newQ)
   ELSE <<>>)
  \o Individual("resolved", resolvedQ)
  \o Individual("monitoring", monitoringQ)
  \o [k \in 1..Len(statusQ) |->
        [kind |-> "status", ids |-> <<statusQ[k].incident>>,
         oldStatus |-> statusQ[k].oldStatus]]

\* the notification promises created after the loop, in creation order
buildNotifications_DigestToo(newQ, resolvedQ, monitoringQ, statusQ) ==
  (IF Len(newQ) >= DIGEST_THRESHOLD THEN <<[kind |-> "digest", ids |-> newQ]>> ELSE <<>>)
  \o Individual("new", newQ)
  \o Individual("resolved", resolvedQ)
  \o Individual("monitoring", monitoringQ)
  \o [k \in 1..Len(statusQ) |->
        [kind |-> "status", ids |-> <<statusQ[k].incident>>,
         oldStatus |-> statusQ[k].oldStatus]]

buildNotifications(newQ, resolvedQ, monitoringQ, statusQ) ==
  (IF Len(newQ) > 0
   THEN IF Len(newQ) >= DIGEST_THRESHOLD
        THEN <<[kind |-> "digest", ids |-> newQ]>>
        ELSE Individual("new", newQ)
   ELSE <<>>)
  \o Individual("resolved", resolvedQ)
  \o Individual("monitoring", monitoringQ)
  \o [k \in 1..Len(statusQ) |->
        [kind |-> "status", ids |-> <<statusQ[k].incident>>,
         oldStatus |-> statusQ[k].oldStatus]]

\* the state of a notification promise as Promise.allSettled sees it: every
\* send promise carries a .catch handler that logs and returns
settled(sendResult) == "fulfilled"

\* await Promise.allSettled(notifications): it resolves, never rejects, with
\* the state of every promise
awaitNotifications_FailFast(results) ==
  [threw |-> \E k \in 1..Len(results) : ~results[k].ok,
   value |-> [k \in 1..Len(results) |-> settled(results[k])]]

awaitNotifications(results) ==
  [threw |-> FALSE, value |-> [k \in 1..Len(results) |-> settled(results[k])]]

CountOf(seq, v) == Cardinality({k \in 1..Len(seq) : seq[k] = v})

\* ------------------------------------------------------------------- state
VARIABLES
  kvIncident,          \* KV: incident:<id> -> value
  kvMetricsData,       \* KV: metrics:data
  kvLastNotification,  \* KV: metrics:last_notification
  now,                 \* Date.now()
  statusPage,          \* the incidents array the status API serves
  minImpactLevel,      \* env.MIN_IMPACT_LEVEL
  pc,                  \* position of the running handler
  handler,             \* "scheduled" or "fetch"
  incidents,           \* processIncidents locals ...
  recentIncidents,
  storedIncidentsMap,
  idx,
  results,
  newIncidents,
  resolvedIncidents,
  monitoringIncidents,
  statusUpdates,
  notifications,
  sendResults,         \* outcome of sendNotification per notification promise
  response,            \* what the handler returned to its caller
  outcome,             \* how the current invocation ended
  remaining,           \* handler invocations still to come
  atStart,             \* the KV as the current invocation found it
  effects,             \* external calls made by the current invocation
  prev,                \* the last processIncidents call that returned before this one
  undelivered,         \* incidents whose last notification the webhook never accepted
  request,             \* method and pathname of the request the fetch handler serves
  webhook,             \* per dispatch of this invocation, the first attempt the
                       \* webhook accepts (MAX_RETRIES + 1: none)
  handled,             \* (id, status) of the incidents earlier returned passes
                       \* classified without filtering them
  posted,              \* the messages this invocation handed to sendNotification
  peer,                \* a second invocation of scheduled, running at the same time:
                       \* its position, its locals, the marker value it read
  log                  \* what each finished invocation saw and queued, oldest
                       \* first, kept where the feed changes between invocations

kvVars == <<kvIncident, kvMetricsData, kvLastNotification>>
envVars == <<now, statusPage, minImpactLevel>>
loopVars == <<results, newIncidents, resolvedIncidents, monitoringIncidents, statusUpdates>>
localVars == <<incidents, recentIncidents, storedIncidentsMap, idx, loopVars,
               notifications, sendResults>>
ghostVars == <<remaining, atStart, prev, undelivered, request, webhook, handled,
               posted, peer, log>>
vars == <<kvVars, envVars, pc, handler, localVars, response, outcome, effects,
          ghostVars>>

NoEffects == [fetches |-> 0, fetchErrors |-> 0, incidentPuts |-> 0, metricsPuts |-> 0,
              markerPuts |-> 0, posts |-> 0, kvGets |-> 0]

\* the second invocation before it starts
IdlePeer ==
  [pc |-> "idle", outcome |-> "none", marker |-> NoValue, recentIncidents |-> <<>>,
   storedIncidentsMap |-> <<>>, idx |-> 0, newIncidents |-> <<>>,
   resolvedIncidents |-> <<>>, monitoringIncidents |-> <<>>, statusUpdates |-> <<>>,
   notifications |-> <<>>]

\* the scheduled handler serves no request
NoRequest == [method |-> "", pathname |-> ""]

NoPrev == [outcome |-> "none"]

\* ------------------------------------------------------------ initial state
\* Wide: the first incident ranges over every status, impact and age, with any
\* stored status, and the incidents listed after it over fewer values.  Narrow
\* (not wide): every incident just started, fewer impacts.
IncidentsOf(id, wide) ==
  IF id = IdOrder[1]
  THEN [id : {id}, status : Statuses,
        impact : IF wide THEN Impacts ELSE {"minor", "major"},
        started_at : IF wide THEN StartTimes ELSE {T0}, resolved_at : {NoTime}]
  ELSE IF id = IdOrder[2]
  THEN [id : {id}, status : {"investigating", "resolved"},
        impact : IF wide THEN {"minor", "major"} ELSE {"major"},
        started_at : {T0}, resolved_at : {NoTime}]
  ELSE [id : {id}, status : {"investigating"}, impact : {"major"}, started_at : {T0},
        resolved_at : {NoTime}]

\* A stored value is absent, a record an earlier pass wrote, or (first incident)
\* the bare timestamp the first version of the worker wrote.
StoredValues(id) ==
  IF id = IdOrder[1]
  THEN {NoValue, Text(T0 - RATE_LIMIT_COOLDOWN_MS)}
         \cup {Json([status |-> s, timestamp |-> T0 - RATE_LIMIT_COOLDOWN_MS]) :
                 s \in Statuses}
  ELSE {NoValue, Json([status |-> "investigating",
                       timestamp |-> T0 - RATE_LIMIT_COOLDOWN_MS])}

\* pages with the first incident resolved, started three hours before T0
DurationPages ==
  {<<[id |-> IdOrder[1], status |-> "resolved", impact |-> "major",
      started_at |-> T0 - 3 * 3600000, resolved_at |-> r]>> :
     r \in {NoTime} \cup {T0 - 3 * 3600000 + d : d \in Durations}}

\* the incidents arrays the status API can serve: any subset of the ids, in
\* IdOrder, each id at most once
RECURSIVE PagesFrom(_, _)
PagesFrom(k, wide) ==
  IF k > Len(IdOrder) THEN {<<>>}
  ELSE LET rest == PagesFrom(k + 1, wide)
       IN rest \cup {<<inc>> \o r : inc \in IncidentsOf(IdOrder[k], wide), r \in rest}

\* a namespace never written, or one left by an earlier notifying pass
InitialMetrics ==
  {[data |-> NoValue, marker |-> NoValue],
   [data |-> Json([lastRun |-> T0 - RATE_LIMIT_COOLDOWN_MS, notificationsSent |-> 2,
                   incidentsProcessed |-> 3, errors |-> 1]),
    marker |-> Text(T0 - RATE_LIMIT_COOLDOWN_MS)]}

\* the incident entries a namespace can hold when the first invocation starts
Stores ==
  {f \in [Ids -> UNION {StoredValues(id) : id \in Ids}] :
     \A id \in Ids : f[id] \in StoredValues(id)}

InitFrom(pages, stores, invocations) ==
  /\ kvIncident \in stores
  /\ \E m \in InitialMetrics : kvMetricsData = m.data /\ kvLastNotification = m.marker
  /\ now = T0
  /\ statusPage \in pages
  /\ minImpactLevel \in MinImpactLevels
  /\ pc = "idle"
  /\ handler = "none"
  /\ incidents = <<>>
  /\ recentIncidents = <<>>
  /\ storedIncidentsMap = <<>>
  /\ idx = 0
  /\ results = <<>>
  /\ newIncidents = <<>>
  /\ resolvedIncidents = <<>>
  /\ monitoringIncidents = <<>>
  /\ statusUpdates = <<>>
  /\ notifications = <<>>
  /\ sendResults = <<>>
  /\ response = Null
  /\ outcome = "none"
  /\ remaining = invocations
  /\ atStart = [incident |-> kvIncident, metrics |-> kvMetricsData,
                marker |-> kvLastNotification]
  /\ effects = NoEffects
  /\ prev = NoPrev
  /\ undelivered = {}
  /\ request = NoRequest
  /\ webhook = <<>>
  /\ handled = {}
  /\ posted = <<>>
  /\ peer = IdlePeer
  /\ log = <<>>

InitOn(pages, invocations) == InitFrom(pages, Stores, invocations)

InitWith(wide, invocations) == InitOn(PagesFrom(1, wide), invocations)

\* successive invocations over a page that does not change
Init == InitWith(FALSE, MaxRuns)

\* one invocation
InitPass == InitWith(TRUE, 1)

InitFault == InitWith(FALSE, 1)

\* scheduled invocations of a feed that lists the first incident, whose status
\* and impact change from one invocation to the next
ChangeRuns == 3
ChangePages == {<<inc>> : inc \in IncidentsOf(IdOrder[1], FALSE)}

InitChange ==
  /\ InitOn(ChangePages, ChangeRuns)
  /\ \A k \in 2..Len(IdOrder) : kvIncident[IdOrder[k]] = NoValue

\* scheduled invocations, a minute to a week apart, of a feed that lists the
\* first incident.  The incident started at T0 and has no entry yet, or it
\* started a TTL less a recency window before T0 and was recorded then, so that
\* its entry expires one recency window after T0.
Elapses ==
  {RATE_LIMIT_COOLDOWN_MS, RECENT_INCIDENT_MS - RATE_LIMIT_COOLDOWN_MS,
   RECENT_INCIDENT_MS}
LongAgo == T0 - (KV_TTL_SECONDS - RECENT_INCIDENT_DAYS * 24 * 60 * 60) * 1000
ExpiryPages ==
  {<<[id |-> IdOrder[1], status |-> s, impact |-> "major", started_at |-> t,
      resolved_at |-> NoTime]>> :
     s \in {"investigating", "identified"}, t \in {T0, LongAgo}}

ExpiryStores ==
  {[id \in Ids |-> IF id = IdOrder[1] THEN v ELSE NoValue] :
     v \in {NoValue, Json([status |-> "investigating", timestamp |-> LongAgo])}}

InitExpiry ==
  /\ InitFrom(ExpiryPages, ExpiryStores, ChangeRuns)
  /\ kvIncident[IdOrder[1]] = NoValue <=> statusPage[1].started_at = T0

\* one invocation over a feed that lists at most the first incident, and a
\* second one that overlaps it and is served a feed of the other incidents
LaterPages == PagesFrom(2, FALSE)

InitDisjoint ==
  InitOn({p \in PagesFrom(1, FALSE) : \A k \in 1..Len(p) : p[k].id = IdOrder[1]}, 1)

\* one invocation, and a second one that overlaps it, over the first two
\* incidents
InitOverlap ==
  /\ InitOn({p \in PagesFrom(1, FALSE) :
               \A k \in 1..Len(p) : p[k].id # IdOrder[Len(IdOrder)]}, 1)
  /\ kvIncident[IdOrder[Len(IdOrder)]] = NoValue

\* one invocation over a page with one incident that was resolved some time
\* after it started, or carries no resolution time
InitDuration == InitOn(DurationPages, 1)

\* ------------------------------------------------------------------ actions
\* updateMetrics: the new metrics:data, and the marker when notificationsSent
\* is a non-zero number
updateMetrics(data, marker, updates, t) ==
  LET touch == "notificationsSent" \in DOMAIN updates /\ updates.notificationsSent # 0
  IN [data |-> Json(MergeMetrics(getMetrics(data, t), updates)),
      marker |-> IF touch THEN Text(t) ELSE marker,
      markerPuts |-> IF touch THEN 1 ELSE 0]

\* a handler is invoked: the first one at T0, a later one some delay after the
\* previous one returned
Invoke(h, req, d) ==
  /\ pc \in {"idle", "done"}
  /\ remaining > 0
  /\ remaining' = remaining - 1
  /\ now' = IF pc = "idle" THEN now ELSE now + d
  /\ prev' = IF outcome \in {"completed", "rate_limited"}
             THEN [outcome |-> outcome, at |-> now, notifications |-> notifications]
             ELSE prev
  /\ handled' = IF outcome = "completed"
                THEN handled \cup {[id |-> results[k].id, status |-> results[k].status] :
                                     k \in {j \in 1..Len(results) :
                                              results[j].action # "filtered"}}
                ELSE handled
  /\ handler' = h
  /\ request' = req
  /\ webhook' = <<>>
  /\ posted' = <<>>
  /\ atStart' = [incident |-> kvIncident, metrics |-> kvMetricsData,
                 marker |-> kvLastNotification]
  /\ incidents' = <<>>
  /\ recentIncidents' = <<>>
  /\ storedIncidentsMap' = <<>>
  /\ idx' = 0
  /\ results' = <<>>
  /\ newIncidents' = <<>>
  /\ resolvedIncidents' = <<>>
  /\ monitoringIncidents' = <<>>
  /\ statusUpdates' = <<>>
  /\ notifications' = <<>>
  /\ sendResults' = <<>>
  /\ UNCHANGED <<kvVars, statusPage, minImpactLevel, undelivered, peer, log>>

\* the first of the MAX_RETRIES attempts of a dispatch that the webhook
\* accepts, MAX_RETRIES + 1 when it accepts none of them
FirstAccepted(outcomes) ==
  IF \E k \in 1..MAX_RETRIES : outcomes[k]
  THEN CHOOSE k \in 1..MAX_RETRIES :
         outcomes[k] /\ \A j \in 1..MAX_RETRIES : j < k => ~outcomes[j]
  ELSE MAX_RETRIES + 1

\* an error thrown out of processIncidents reaches the catch block of the
\* handler: scheduled awaits updateMetrics({errors: 1}), which returns (catchOk)
\* or throws in its turn before it has written anything; fetch answers 500.
\* data is metrics:data as the failed pass left it, eff its external calls.
Catch(data, eff, catchOk) ==
  /\ pc' = "done"
  /\ IF handler = "scheduled"
     THEN IF catchOk
          THEN LET u == updateMetrics(data, kvLastNotification, [errors |-> 1], now)
               IN /\ outcome' = "failed"
                  /\ kvMetricsData' = u.data
                  /\ kvLastNotification' = u.marker
                  /\ effects' = [eff EXCEPT !.kvGets = @ + 1,
                                            !.metricsPuts = @ + 1,
                                            !.markerPuts = @ + u.markerPuts]
                  /\ response' = Null
          ELSE /\ outcome' = "unhandled"
               /\ kvMetricsData' = data
               /\ effects' = eff
               /\ response' = Null
               /\ UNCHANGED kvLastNotification
     ELSE /\ outcome' = "failed"
          /\ kvMetricsData' = data
          /\ effects' = eff
          /\ response' = [status |-> 500]
          /\ UNCHANGED kvLastNotification

\* scheduled: try { await processIncidents(env, false) }
scheduled ==
  \E d \in Delays :
    /\ Invoke("scheduled", NoRequest, d)
    /\ pc' = "rate"
    /\ outcome' = "running"
    /\ response' = Null
    /\ effects' = NoEffects

\* the branch the fetch handler takes: the pathname test comes before the
\* method test
route_AnyMethod(method, pathname) ==
  IF pathname = "/health" THEN "health" ELSE "trigger"

route(method, pathname) ==
  IF pathname = "/health" THEN "health"
  ELSE IF method # "GET" THEN "method_not_allowed"
  ELSE "trigger"

\* fetch: /health, 405 for a non-GET, else processIncidents(env, true)
fetch ==
  \E d \in Delays, method \in {"GET", "POST"}, pathname \in {"/", "/health"} :
    /\ Invoke("fetch", [method |-> method, pathname |-> pathname], d)
    /\ IF route(method, pathname) = "health"
       THEN /\ pc' = "done"
            /\ outcome' = "health"
            /\ response' = [status |-> 200, healthy |-> TRUE,
                            metrics |-> getMetrics(kvMetricsData, now')]
            /\ effects' = [NoEffects EXCEPT !.kvGets = 1]
       ELSE IF route(method, pathname) = "method_not_allowed"
       THEN /\ pc' = "done"
            /\ outcome' = "method_not_allowed"
            /\ response' = [status |-> 405]
            /\ effects' = NoEffects
       ELSE /\ pc' = "rate"
            /\ outcome' = "running"
            /\ response' = Null
            /\ effects' = NoEffects

\* processIncidents, lines 760-764: the rate-limit gate
RateLimitCheck ==
  /\ pc = "rate"
  /\ effects' = [effects EXCEPT !.kvGets = @ + 1]
  /\ IF isRateLimited(kvLastNotification, now)
     THEN /\ pc' = "done"
          /\ outcome' = "rate_limited"
          /\ response' = IF handler = "fetch"
                         THEN [status |-> 200, totalIncidents |-> 0, results |-> <<>>]
                         ELSE Null
     ELSE /\ pc' = "fetch"
          /\ UNCHANGED <<outcome, response>>
  /\ UNCHANGED <<kvVars, envVars, handler, localVars, ghostVars>>

\* processIncidents, lines 766-773: fetchIncidents and the recency filter; a
\* failed fetch throws out of processIncidents into the handler's catch
FetchIncidents ==
  /\ pc = "fetch"
  /\ \E ok \in BOOLEAN :
       LET fetched == fetchIncidents(ok, statusPage) IN
       IF ~fetched.threw
       THEN /\ incidents' = fetched.value
            /\ recentIncidents' =
                 LET Recent(inc) == isRecent(inc, now) IN SelectSeq(fetched.value, Recent)
            /\ pc' = "read"
            /\ effects' = [effects EXCEPT !.fetches = @ + 1,
                                          !.fetchErrors = @ + IF ok THEN 0 ELSE 1]
            /\ UNCHANGED <<kvVars, outcome, response>>
       ELSE /\ Catch(kvMetricsData,
                     [effects EXCEPT !.fetches = @ + 1, !.fetchErrors = @ + 1], TRUE)
            /\ UNCHANGED <<kvIncident, incidents, recentIncidents>>
  /\ UNCHANGED <<envVars, handler, storedIncidentsMap, idx, loopVars, notifications,
                 sendResults, ghostVars>>

\* processIncidents, lines 776-780
BatchGet ==
  /\ pc = "read"
  /\ storedIncidentsMap' =
       batchGetStoredIncidents([k \in 1..Len(recentIncidents) |-> recentIncidents[k].id],
                               kvIncident)
  /\ idx' = 1
  /\ pc' = "classify"
  /\ effects' = [effects EXCEPT !.kvGets = @ + Len(recentIncidents)]
  /\ UNCHANGED <<kvVars, envVars, handler, incidents, recentIncidents, loopVars,
                 notifications, sendResults, response, outcome, ghostVars>>

\* processIncidents, lines 789-845: one iteration of the for loop
ProcessIncident ==
  /\ pc = "classify"
  /\ idx <= Len(recentIncidents)
  /\ LET incident == recentIncidents[idx]
         storedIncident == storedIncidentsMap[incident.id]
         c == classify(incident, storedIncident, minImpactLevel)
         result == [id |-> incident.id, impact |-> incident.impact,
                    status |-> incident.status,
                    storedStatus |-> IF storedIncident = Null THEN NullStatus
                                     ELSE storedIncident.status,
                    action |-> c.action]
     IN /\ results' = Append(results, result)
        /\ newIncidents' = IF c.queue = "new" THEN Append(newIncidents, incident.id)
                           ELSE newIncidents
        /\ resolvedIncidents' = IF c.queue = "resolved"
                                THEN Append(resolvedIncidents, incident.id)
                                ELSE resolvedIncidents
        /\ monitoringIncidents' = IF c.queue = "monitoring"
                                  THEN Append(monitoringIncidents, incident.id)
                                  ELSE monitoringIncidents
        /\ statusUpdates' = IF c.queue = "status"
                            THEN Append(statusUpdates,
                                        [incident |-> incident.id,
                                         oldStatus |-> storedIncident.status])
                            ELSE statusUpdates
        /\ kvIncident' = IF c.store
                         THEN [kvIncident EXCEPT ![incident.id] =
                                 storeIncident(incident.status, now)]
                         ELSE kvIncident
        /\ effects' = IF c.store THEN [effects EXCEPT !.incidentPuts = @ + 1]
                      ELSE effects
  /\ idx' = idx + 1
  /\ UNCHANGED <<kvMetricsData, kvLastNotification, envVars, pc, handler, incidents,
                 recentIncidents, storedIncidentsMap, notifications, sendResults,
                 response, outcome, ghostVars>>

\* processIncidents, lines 848-895: the notification promises are created
QueueNotifications ==
  /\ pc = "classify"
  /\ idx > Len(recentIncidents)
  /\ notifications' = buildNotifications(newIncidents, resolvedIncidents,
                                         monitoringIncidents, statusUpdates)
  /\ pc' = "dispatch"
  /\ UNCHANGED <<kvVars, envVars, handler, incidents, recentIncidents,
                 storedIncidentsMap, idx, loopVars, sendResults, response, outcome,
                 effects, ghostVars>>

\* the incidents a notification covers, each with the status it reports
Covered(n) ==
  {[id |-> n.ids[k], status |-> inc.status] :
     k \in 1..Len(n.ids),
     inc \in {recentIncidents[j] : j \in 1..Len(recentIncidents)}}
  \cap {[id |-> recentIncidents[j].id, status |-> recentIncidents[j].status] :
          j \in 1..Len(recentIncidents)}

\* the answers of the webhook to the successive attempts of one dispatch, and
\* to one attempt more: it refuses some number of attempts before it accepts
\* (what it would answer after an accepted attempt is never asked)
WebhookAnswers ==
  {[i \in 1..MAX_RETRIES + 1 |-> i >= first] : first \in 1..MAX_RETRIES + 2}

\* one notification promise runs sendNotification to its end
Dispatch ==
  /\ pc = "dispatch"
  /\ Len(sendResults) < Len(notifications)
  /\ \E outcomes \in WebhookAnswers :
       LET r == sendNotification(outcomes)
           n == notifications[Len(sendResults) + 1]
       IN /\ sendResults' = Append(sendResults, r)
          /\ webhook' = Append(webhook, FirstAccepted(outcomes))
          /\ posted' = Append(posted, message(n, recentIncidents, now))
          /\ effects' = [effects EXCEPT !.posts = @ + r.calls]
          /\ undelivered' = IF r.ok THEN undelivered \ Covered(n)
                            ELSE undelivered \cup Covered(n)
  /\ UNCHANGED <<kvVars, envVars, pc, handler, incidents, recentIncidents,
                 storedIncidentsMap, idx, loopVars, notifications, response, outcome,
                 remaining, atStart, prev, request, handled, peer, log>>

\* processIncidents, lines 897-914: allSettled, the counts, updateMetrics, return
Finish ==
  /\ pc = "dispatch"
  /\ Len(sendResults) = Len(notifications)
  /\ LET awaited == awaitNotifications(sendResults)
         notificationResults == awaited.value
         failedNotifications == CountOf(notificationResults, "rejected")
         successfulNotifications == CountOf(notificationResults, "fulfilled")
         u == updateMetrics(kvMetricsData, kvLastNotification,
                            [lastRun |-> now,
                             notificationsSent |-> successfulNotifications,
                             incidentsProcessed |-> Len(recentIncidents),
                             errors |-> failedNotifications], now)
     IN IF awaited.threw
        THEN Catch(kvMetricsData, effects, TRUE)
        ELSE /\ kvMetricsData' = u.data
             /\ kvLastNotification' = u.marker
             /\ effects' = [effects EXCEPT !.kvGets = @ + 1, !.metricsPuts = @ + 1,
                                           !.markerPuts = @ + u.markerPuts]
             /\ response' = IF handler = "fetch"
                            THEN [status |-> 200, totalIncidents |-> Len(results),
                                  results |-> results]
                            ELSE Null
             /\ pc' = "done"
             /\ outcome' = "completed"
  /\ UNCHANGED <<kvIncident, envVars, handler, localVars, ghostVars>>

Next ==
  \/ scheduled
  \/ fetch
  \/ RateLimitCheck
  \/ FetchIncidents
  \/ BatchGet
  \/ ProcessIncident
  \/ QueueNotifications
  \/ Dispatch
  \/ Finish

\* --------------------------------------------------- failures of the store
\* isRateLimited, line 704: kv.get rejects
RateLimitReadFails ==
  /\ pc = "rate"
  /\ \E catchOk \in BOOLEAN :
       Catch(kvMetricsData, [effects EXCEPT !.kvGets = @ + 1], catchOk)
  /\ UNCHANGED <<kvIncident, envVars, handler, localVars, ghostVars>>

\* the status fetch fails and the updateMetrics of the scheduled catch block
\* rejects as well
FetchFailsStoreDown ==
  /\ pc = "fetch"
  /\ handler = "scheduled"
  /\ Catch(kvMetricsData,
           [effects EXCEPT !.fetches = @ + 1, !.fetchErrors = @ + 1], FALSE)
  /\ UNCHANGED <<kvIncident, envVars, handler, localVars, ghostVars>>

\* batchGetStoredIncidents: one kv.get of the Promise.all rejects
BatchGetFails ==
  /\ pc = "read"
  /\ Len(recentIncidents) > 0
  /\ \E catchOk \in BOOLEAN :
       Catch(kvMetricsData, [effects EXCEPT !.kvGets = @ + Len(recentIncidents)],
             catchOk)
  /\ UNCHANGED <<kvIncident, envVars, handler, localVars, ghostVars>>

\* the for loop, lines 816, 823, 828, 838: the kv.put of storeIncident rejects;
\* the incident was pushed on its queue before the await, its result was not
\* yet pushed
StoreIncidentFails ==
  /\ pc = "classify"
  /\ idx <= Len(recentIncidents)
  /\ LET incident == recentIncidents[idx]
         storedIncident == storedIncidentsMap[incident.id]
         c == classify(incident, storedIncident, minImpactLevel)
     IN /\ c.store
        /\ newIncidents' = IF c.queue = "new" THEN Append(newIncidents, incident.id)
                           ELSE newIncidents
        /\ resolvedIncidents' = IF c.queue = "resolved"
                                THEN Append(resolvedIncidents, incident.id)
                                ELSE resolvedIncidents
        /\ monitoringIncidents' = IF c.queue = "monitoring"
                                  THEN Append(monitoringIncidents, incident.id)
                                  ELSE monitoringIncidents
        /\ statusUpdates' = IF c.queue = "status"
                            THEN Append(statusUpdates,
                                        [incident |-> incident.id,
                                         oldStatus |-> storedIncident.status])
                            ELSE statusUpdates
  /\ \E catchOk \in BOOLEAN : Catch(kvMetricsData, effects, catchOk)
  /\ UNCHANGED <<kvIncident, envVars, handler, incidents, recentIncidents,
                 storedIncidentsMap, idx, results, notifications, sendResults,
                 ghostVars>>

\* updateMetrics, line 905: the kv.get or the put of metrics:data rejects
\* (nothing written), or the put of the marker rejects (metrics:data written)
UpdateMetricsFails ==
  /\ pc = "dispatch"
  /\ Len(sendResults) = Len(notifications)
  /\ \E markerPut, catchOk \in BOOLEAN :
       LET notificationResults == awaitNotifications(sendResults).value
           u == updateMetrics(kvMetricsData, kvLastNotification,
                              [lastRun |-> now,
                               notificationsSent |->
                                 CountOf(notificationResults, "fulfilled"),
                               incidentsProcessed |-> Len(recentIncidents),
                               errors |-> CountOf(notificationResults, "rejected")],
                              now)
       IN IF markerPut
          THEN /\ u.markerPuts = 1
               /\ Catch(u.data,
                        [effects EXCEPT !.kvGets = @ + 1, !.metricsPuts = @ + 1],
                        catchOk)
          ELSE Catch(kvMetricsData, [effects EXCEPT !.kvGets = @ + 1], catchOk)
  /\ UNCHANGED <<kvIncident, envVars, handler, localVars, ghostVars>>

\* the platform ends the invocation where it stands
Crash ==
  /\ pc \in {"rate", "fetch", "read", "classify", "dispatch"}
  /\ pc' = "done"
  /\ outcome' = "crashed"
  /\ UNCHANGED <<kvVars, envVars, handler, localVars, response, effects, ghostVars>>

NextFault ==
  \/ scheduled
  \/ fetch
  \/ RateLimitCheck
  \/ FetchIncidents
  \/ BatchGet
  \/ ProcessIncident
  \/ QueueNotifications
  \/ Dispatch
  \/ Finish
  \/ RateLimitReadFails
  \/ FetchFailsStoreDown
  \/ BatchGetFails
  \/ StoreIncidentFails
  \/ UpdateMetricsFails
  \/ Crash

\* ------------------------------------------------- a second invocation
\* Nothing keeps the platform from invoking scheduled while an invocation is
\* running.  The second invocation runs the same processIncidents, on the same
\* store; its dispatches and the updateMetrics that follows them are one step.
PeerUnchanged ==
  UNCHANGED <<envVars, pc, handler, localVars, response, outcome, effects, remaining,
              atStart, prev, undelivered, request, webhook, handled, posted, log>>

PeerStart ==
  /\ peer.pc = "idle"
  /\ pc \in {"rate", "fetch", "read", "classify", "dispatch"}
  /\ peer' = [peer EXCEPT !.pc = "rate", !.outcome = "running"]
  /\ UNCHANGED kvVars
  /\ PeerUnchanged

PeerRateLimitCheck ==
  /\ peer.pc = "rate"
  /\ peer' = IF isRateLimited(kvLastNotification, now)
             THEN [peer EXCEPT !.pc = "done", !.outcome = "rate_limited",
                               !.marker = kvLastNotification]
             ELSE [peer EXCEPT !.pc = "fetch", !.marker = kvLastNotification]
  /\ UNCHANGED kvVars
  /\ PeerUnchanged

PeerFetchOf(page) ==
  /\ \E ok \in BOOLEAN :
       LET fetched == fetchIncidents(ok, page) IN
       IF ~fetched.threw
       THEN /\ peer' = [peer EXCEPT
                          !.pc = "read",
                          !.recentIncidents =
                            LET Recent(inc) == isRecent(inc, now)
                            IN SelectSeq(fetched.value, Recent)]
            /\ UNCHANGED kvVars
       ELSE /\ peer' = [peer EXCEPT !.pc = "done", !.outcome = "failed"]
            /\ kvMetricsData' = updateMetrics(kvMetricsData, kvLastNotification,
                                              [errors |-> 1], now).data
            /\ UNCHANGED <<kvIncident, kvLastNotification>>
  /\ PeerUnchanged

PeerFetchIncidents ==
  /\ peer.pc = "fetch"
  /\ PeerFetchOf(statusPage)

\* by the time the second invocation fetches, the feed lists other incidents
PeerFetchLaterFeed ==
  /\ peer.pc = "fetch"
  /\ \E page \in LaterPages : PeerFetchOf(page)

PeerBatchGet ==
  /\ peer.pc = "read"
  /\ peer' = [peer EXCEPT
                !.pc = "classify",
                !.idx = 1,
                !.storedIncidentsMap =
                  batchGetStoredIncidents(
                    [k \in 1..Len(peer.recentIncidents) |-> peer.recentIncidents[k].id],
                    kvIncident)]
  /\ UNCHANGED kvVars
  /\ PeerUnchanged

PeerProcessIncident ==
  /\ peer.pc = "classify"
  /\ peer.idx <= Len(peer.recentIncidents)
  /\ LET incident == peer.recentIncidents[peer.idx]
         storedIncident == peer.storedIncidentsMap[incident.id]
         c == classify(incident, storedIncident, minImpactLevel)
     IN /\ peer' = [peer EXCEPT
                      !.idx = @ + 1,
                      !.newIncidents =
                        IF c.queue = "new" THEN Append(@, incident.id) ELSE @,
                      !.resolvedIncidents =
                        IF c.queue = "resolved" THEN Append(@, incident.id) ELSE @,
                      !.monitoringIncidents =
                        IF c.queue = "monitoring" THEN Append(@, incident.id) ELSE @,
                      !.statusUpdates =
                        IF c.queue = "status"
                        THEN Append(@, [incident |-> incident.id,
                                        oldStatus |-> storedIncident.status])
                        ELSE @]
        /\ kvIncident' = IF c.store
                         THEN [kvIncident EXCEPT ![incident.id] =
                                 storeIncident(incident.status, now)]
                         ELSE kvIncident
  /\ UNCHANGED <<kvMetricsData, kvLastNotification>>
  /\ PeerUnchanged

PeerQueueNotifications ==
  /\ peer.pc = "classify"
  /\ peer.idx > Len(peer.recentIncidents)
  /\ peer' = [peer EXCEPT
                !.pc = "dispatch",
                !.notifications =
                  buildNotifications(peer.newIncidents, peer.resolvedIncidents,
                                     peer.monitoringIncidents, peer.statusUpdates)]
  /\ UNCHANGED kvVars
  /\ PeerUnchanged

PeerFinish ==
  /\ peer.pc = "dispatch"
  /\ LET u == updateMetrics(kvMetricsData, kvLastNotification,
                            [lastRun |-> now,
                             notificationsSent |-> Len(peer.notifications),
                             incidentsProcessed |-> Len(peer.recentIncidents),
                             errors |-> 0], now)
     IN /\ kvMetricsData' = u.data
        /\ kvLastNotification' = u.marker
  /\ peer' = [peer EXCEPT !.pc = "done", !.outcome = "completed"]
  /\ UNCHANGED kvIncident
  /\ PeerUnchanged

NextDisjoint ==
  \/ scheduled
  \/ fetch
  \/ RateLimitCheck
  \/ FetchIncidents
  \/ BatchGet
  \/ ProcessIncident
  \/ QueueNotifications
  \/ Dispatch
  \/ Finish
  \/ PeerStart
  \/ PeerRateLimitCheck
  \/ PeerFetchLaterFeed
  \/ PeerBatchGet
  \/ PeerProcessIncident
  \/ PeerQueueNotifications
  \/ PeerFinish

NextOverlap ==
  \/ scheduled
  \/ fetch
  \/ RateLimitCheck
  \/ FetchIncidents
  \/ BatchGet
  \/ ProcessIncident
  \/ QueueNotifications
  \/ Dispatch
  \/ Finish
  \/ PeerStart
  \/ PeerRateLimitCheck
  \/ PeerFetchIncidents
  \/ PeerBatchGet
  \/ PeerProcessIncident
  \/ PeerQueueNotifications
  \/ PeerFinish

\* ------------------------------------------- a feed that changes over time
\* Between two invocations of the cron trigger time passes, Cloudflare may
\* have moved the incident to another status or impact, and the worker may
\* have been redeployed with another MIN_IMPACT_LEVEL.
FeedChanges ==
  /\ pc = "done"
  /\ remaining > 0
  /\ \E d \in Delays, page \in ChangePages, level \in MinImpactLevels :
       /\ now' = now + d
       /\ statusPage' = page
       /\ minImpactLevel' = level
  /\ pc' = "idle"
  /\ log' = Append(log, [outcome |-> outcome, results |-> results,
                         notifications |-> notifications])
  /\ UNCHANGED <<kvVars, handler, localVars, response, outcome, effects, remaining,
                 atStart, prev, undelivered, request, webhook, handled, posted, peer>>

\* the cron trigger fires
nextScheduled == pc = "idle" /\ scheduled

NextChange ==
  \/ nextScheduled
  \/ RateLimitCheck
  \/ FetchIncidents
  \/ BatchGet
  \/ ProcessIncident
  \/ QueueNotifications
  \/ Dispatch
  \/ Finish
  \/ FeedChanges

\* ------------------------------------------------------- entries that expire
\* Between two invocations time passes and KV drops the incident entries whose
\* expirationTtl has run out; the incident keeps its started_at and may change
\* its status.
TimePasses ==
  /\ pc = "done"
  /\ remaining > 0
  /\ \E d \in Elapses, page \in ExpiryPages :
       /\ d <= T0 + RECENT_INCIDENT_MS - now
       /\ now' = now + d
       /\ page[1].started_at = statusPage[1].started_at
       /\ statusPage' = page
       /\ kvIncident' = Unexpired(kvIncident, now + d)
  /\ pc' = "idle"
  /\ log' = Append(log, [outcome |-> outcome, results |-> results,
                         notifications |-> notifications])
  /\ UNCHANGED <<kvMetricsData, kvLastNotification, minImpactLevel, handler, localVars,
                 response, outcome, effects, remaining, atStart, prev, undelivered,
                 request, webhook, handled, posted, peer>>

NextExpiry ==
  \/ nextScheduled
  \/ RateLimitCheck
  \/ FetchIncidents
  \/ BatchGet
  \/ ProcessIncident
  \/ QueueNotifications
  \/ Dispatch
  \/ Finish
  \/ TimePasses

\* an upper bound on the steps the invocations still to come, and the one
\* running, can take
StepsLeft ==
  CASE pc = "rate" -> 2 * Len(IdOrder) + 5
    [] pc = "fetch" -> 2 * Len(IdOrder) + 4
    [] pc = "read" -> 2 * Len(IdOrder) + 3
    [] pc = "classify" -> Len(IdOrder) + 2 + (Len(recentIncidents) + 1 - idx)
    [] pc = "dispatch" -> 1 + (Len(notifications) - Len(sendResults))
    [] OTHER -> 0
Measure == remaining * (2 * Len(IdOrder) + 6) + StepsLeft

Spec == Init /\ [][Next]_vars

SpecPass == InitPass /\ [][Next]_vars

\* one invocation in which store calls can fail and the invocation can be cut
\* short
SpecFault == InitFault /\ [][NextFault]_vars

\* two invocations that overlap and look at different incidents
SpecDisjoint == InitDisjoint /\ [][NextDisjoint]_vars

\* two invocations that overlap
SpecOverlap == InitOverlap /\ [][NextOverlap]_vars

\* successive scheduled invocations of a changing feed
SpecChange == InitChange /\ [][NextChange]_vars

\* successive scheduled invocations far enough apart for entries to expire
SpecExpiry == InitExpiry /\ [][NextExpiry]_vars

\* one invocation over a resolved incident
SpecDuration == InitDuration /\ [][Next]_vars

\* ------------------------------------------------------------- properties
Range(seq) == {seq[k] : k \in 1..Len(seq)}

\* the pass ran to its return statement
Completed == pc = "done" /\ outcome = "completed"

\* the incidents of the page that the pass has to look at: inside the recency
\* window, and at or above the configured minimum impact
InWindow(inc) == now - inc.started_at < RECENT_INCIDENT_DAYS * 24 * 60 * 60 * 1000
BelowMinimum(inc) ==
  /\ minImpactLevel # ""
  /\ \/ minImpactLevel = "major" /\ inc.impact \in {"none", "minor"}
     \/ minImpactLevel = "minor" /\ inc.impact = "none"
     \/ minImpactLevel = "critical" /\ inc.impact \in {"none", "minor", "major"}
Processed(inc) == InWindow(inc) /\ ~BelowMinimum(inc)

\* the stored entry the invocation found for an incident
Before(id) == atStart.incident[id]
HadEntry(id) == Before(id) # NoValue
StatusBefore(id) ==
  IF Before(id).kind = "json" THEN Before(id).value.status ELSE "identified"
ResultOf(id) == CHOOSE r \in Range(results) : r.id = id

\* the notifications of this pass that cover an incident
NotificationsFor(id, kinds) ==
  {k \in 1..Len(notifications) :
     notifications[k].kind \in kinds /\ id \in Range(notifications[k].ids)}
AllKinds == {"new", "digest", "resolved", "monitoring", "status"}

\* C1: a pass that returns has queued exactly one new-incident notification
\* (its own, or the one digest) for every incident inside the recency window
\* that passes the impact filter, had no stored entry and is not resolved, and
\* the store then holds that incident at its current status.
C1_NewIncidentNotifiedOnceAndStored ==
  Completed =>
    \A inc \in Range(statusPage) :
      (Processed(inc) /\ ~HadEntry(inc.id) /\ inc.status # "resolved") =>
        /\ Cardinality(NotificationsFor(inc.id, {"new", "digest"})) = 1
        /\ Cardinality({k \in 1..Len(notifications) : notifications[k].kind = "digest"}) <= 1
        /\ kvIncident[inc.id].kind = "json"
        /\ kvIncident[inc.id].value.status = inc.status

C1_Witness ==
  /\ Completed
  /\ \E inc \in Range(statusPage) :
       /\ Processed(inc) /\ ~HadEntry(inc.id) /\ inc.status # "resolved"
       /\ minImpactLevel # ""
       /\ \E k \in NotificationsFor(inc.id, {"digest"}) : sendResults[k].ok

\* C2: a pass that returns has queued exactly one resolution notification, and
\* no status-progressed, monitoring or new-incident notification, for every
\* incident it processed whose stored status was not "resolved" and whose
\* current status is "resolved".
C2_ResolutionNotifiedOnce ==
  Completed =>
    \A inc \in Range(statusPage) :
      (Processed(inc) /\ HadEntry(inc.id) /\ StatusBefore(inc.id) # "resolved"
         /\ inc.status = "resolved") =>
        /\ Cardinality(NotificationsFor(inc.id, {"resolved"})) = 1
        /\ NotificationsFor(inc.id, {"status", "monitoring", "new", "digest"}) = {}
        /\ ResultOf(inc.id).action = "resolution_notification"

C2_Witness ==
  /\ Completed
  /\ \E inc \in Range(statusPage) :
       /\ Processed(inc) /\ HadEntry(inc.id) /\ StatusBefore(inc.id) = "monitoring"
       /\ inc.status = "resolved"
       /\ NotificationsFor(inc.id, {"resolved"}) # {}

\* C3: with a minimum impact level configured, an incident of the pass below
\* the minimum is reported "filtered", is covered by no notification and keeps
\* its stored value, whatever its stored and current status; an incident at or
\* above the minimum gets the action and the store write it gets with no
\* minimum configured.
C3_ImpactFilter ==
  (Completed /\ minImpactLevel # "") =>
    \A inc \in Range(statusPage) :
      InWindow(inc) =>
        IF BelowMinimum(inc)
        THEN /\ ResultOf(inc.id).action = "filtered"
             /\ NotificationsFor(inc.id, AllKinds) = {}
             /\ kvIncident[inc.id] = Before(inc.id)
        ELSE LET c == classify(inc, getStoredIncident(Before(inc.id)), "")
             IN /\ ResultOf(inc.id).action = c.action
                /\ (c.queue = "none") = (NotificationsFor(inc.id, AllKinds) = {})
                /\ kvIncident[inc.id] = IF c.store THEN storeIncident(inc.status, now)
                                        ELSE Before(inc.id)

C3_Witness ==
  /\ Completed
  /\ minImpactLevel = "major"
  /\ \E inc \in Range(statusPage) :
       /\ InWindow(inc) /\ inc.impact = "minor" /\ inc.status = "resolved"
       /\ HadEntry(inc.id) /\ StatusBefore(inc.id) = "investigating"
       /\ ResultOf(inc.id).action = "filtered"
  /\ \E inc \in Range(statusPage) :
       /\ InWindow(inc) /\ inc.impact = "major"
       /\ ResultOf(inc.id).action = "new_incident_notification"

C6_RegressionIsSilent ==
  Completed =>
    \A inc \in Range(statusPage) :
      (/\ Processed(inc) /\ HadEntry(inc.id)
       /\ StatusBefore(inc.id) # inc.status
       /\ inc.status \notin {"resolved", "monitoring"}
       /\ STATUS_PRIORITIES(inc.status) <= STATUS_PRIORITIES(StatusBefore(inc.id))) =>
        /\ kvIncident[inc.id] = Json([status |-> inc.status, timestamp |-> now])
        /\ NotificationsFor(inc.id, AllKinds) = {}
        /\ ResultOf(inc.id).action = "none"

C6_Witness ==
  /\ Completed
  /\ \E inc \in Range(statusPage) :
       /\ Processed(inc) /\ HadEntry(inc.id)
       /\ StatusBefore(inc.id) = "monitoring" /\ inc.status = "identified"
       /\ kvIncident[inc.id] = Json([status |-> "identified", timestamp |-> now])

\* C4: a pass on the page the previous pass completed on, starting within the
\* cooldown of that pass, sends no notification.
C4_SecondPassSilent ==
  (/\ pc = "done"
   /\ outcome \in {"completed", "rate_limited"}
   /\ prev.outcome = "completed"
   /\ now - prev.at < 60 * 1000) =>
     /\ notifications = <<>>
     /\ effects.posts = 0

\* the second pass was not rate limited and looked at an incident the first
\* pass had written
C4_Witness ==
  /\ Completed
  /\ prev.outcome = "completed"
  /\ now - prev.at < 60 * 1000
  /\ \E inc \in Range(recentIncidents) :
       /\ Before(inc.id).kind = "json"
       /\ Before(inc.id).value.timestamp = prev.at
       /\ StatusBefore(inc.id) = "identified"

\* the deliveries of the pass, as the webhook saw them
Delivered == {k \in 1..Len(sendResults) : sendResults[k].ok}
Failed == {k \in 1..Len(sendResults) : ~sendResults[k].ok}

\* C7: after a pass that returns, metrics:data holds the number of dispatches
\* the webhook accepted as notificationsSent and the number of dispatches that
\* failed after their retries as errors.
C7_MetricsCountDeliveries ==
  Completed =>
    /\ kvMetricsData.kind = "json"
    /\ kvMetricsData.value.notificationsSent = Cardinality(Delivered)
    /\ kvMetricsData.value.errors = Cardinality(Failed)

\* C8: a pass that returns sets the rate-limit marker to the current time if
\* and only if one of its dispatches succeeded, and leaves it as it was
\* otherwise.
C8_MarkerIffDelivered ==
  Completed =>
    IF Delivered # {}
    THEN kvLastNotification = Text(now)
    ELSE kvLastNotification = atStart.marker

\* C9: a pass is rate limited exactly when the marker exists and is less than
\* 60 s old; a rate-limited pass fetches nothing, writes nothing to the KV,
\* dispatches nothing and hands a manual caller an empty result list.
C9_RateLimitGate ==
  /\ (pc \notin {"idle", "rate"}
        /\ outcome \in {"running", "completed", "rate_limited", "failed"}) =>
       ((outcome = "rate_limited") <=>
          (atStart.marker.kind # "none" /\ now - atStart.marker.text < 60 * 1000))
  /\ outcome = "rate_limited" =>
       /\ effects.fetches = 0
       /\ effects.incidentPuts = 0
       /\ effects.metricsPuts = 0
       /\ effects.markerPuts = 0
       /\ effects.posts = 0
       /\ kvIncident = atStart.incident
       /\ kvMetricsData = atStart.metrics
       /\ kvLastNotification = atStart.marker
       /\ notifications = <<>>
       /\ handler = "fetch" => (response.status = 200 /\ response.results = <<>>)

\* a manual pass one millisecond inside the cooldown of a marker a pass wrote
C9_Witness ==
  /\ pc = "done"
  /\ outcome = "rate_limited"
  /\ handler = "fetch"
  /\ prev.outcome = "completed"
  /\ atStart.marker = Text(prev.at)
  /\ now - prev.at = 60 * 1000 - 1

\* C13: a dispatch whose first two attempts the webhook refuses and whose third
\* it accepts succeeds after exactly three calls and its promise is fulfilled;
\* and a returned pass all of whose dispatches were accepted within the three
\* attempts has counted every one of them as sent and recorded zero errors.
C13_ThirdAttemptSucceeds ==
  /\ \A k \in 1..Len(sendResults) :
        webhook[k] = MAX_RETRIES =>
          /\ sendResults[k].ok
          /\ sendResults[k].calls = MAX_RETRIES
          /\ settled(sendResults[k]) = "fulfilled"
  /\ (Completed /\ \A k \in 1..Len(webhook) : webhook[k] <= MAX_RETRIES) =>
        /\ kvMetricsData.value.notificationsSent = Len(notifications)
        /\ kvMetricsData.value.errors = 0
        /\ effects.posts =
             Len(notifications)
               + Cardinality({k \in 1..Len(webhook) : webhook[k] >= 2})
               + Cardinality({k \in 1..Len(webhook) : webhook[k] >= 3})

C13_Witness ==
  /\ Completed
  /\ Len(notifications) >= 2
  /\ \E k \in 1..Len(webhook) : webhook[k] = MAX_RETRIES
  /\ \A k \in 1..Len(webhook) : webhook[k] <= MAX_RETRIES

\* C14: whichever of the notifications of a pass fail after their retries, once
\* the handler has returned every queued notification has been attempted, the
\* pass has returned normally, metrics:data carries this run, the fetch handler
\* has answered 200 with the results and the scheduled handler has returned
\* nothing; no dispatch failure ends the pass in the handler's catch block.
C14_PartialFailureIsolated ==
  (pc = "done" /\ Len(notifications) > 0) =>
    /\ outcome = "completed"
    /\ Len(sendResults) = Len(notifications)
    /\ \A k \in 1..Len(sendResults) : sendResults[k].calls >= 1
    /\ effects.metricsPuts = 1
    /\ kvMetricsData.kind = "json"
    /\ kvMetricsData.value.lastRun = now
    /\ kvMetricsData.value.incidentsProcessed = Len(recentIncidents)
    /\ handler = "fetch" =>
          response = [status |-> 200, totalIncidents |-> Len(results),
                      results |-> results]
    /\ handler = "scheduled" => response = Null

C14_Witness ==
  /\ Completed
  /\ Len(notifications) >= 3
  /\ \E i, j, k \in 1..Len(sendResults) :
        /\ i < j /\ j < k
        /\ ~sendResults[i].ok /\ sendResults[j].ok /\ ~sendResults[k].ok

\* C15: an incident of the page that started 7 days or more before the run is
\* never among the recent incidents: its store entry is not read (it is no key
\* of the batch read, and the pass reads one key per incident inside the
\* window), its store entry stays as the run found it, it has no result and no
\* notification covers it, whatever its current and stored statuses are.
C15_OldIncidentIgnored ==
  /\ \A k \in 1..Len(statusPage) :
        ~InWindow(statusPage[k]) =>
          /\ statusPage[k] \notin Range(recentIncidents)
          /\ statusPage[k].id \notin DOMAIN storedIncidentsMap
          /\ kvIncident[statusPage[k].id] = Before(statusPage[k].id)
          /\ \A r \in Range(results) : r.id # statusPage[k].id
          /\ NotificationsFor(statusPage[k].id, AllKinds) = {}
  /\ pc \in {"classify", "dispatch"} =>
        effects.kvGets = 1 + Cardinality({k \in 1..Len(statusPage) :
                                           InWindow(statusPage[k])})
  /\ effects.incidentPuts <= Cardinality({k \in 1..Len(statusPage) :
                                            InWindow(statusPage[k])})

C15_Witness ==
  /\ Completed
  /\ Len(notifications) > 0
  /\ \E k \in 1..Len(statusPage) :
        /\ now - statusPage[k].started_at = RECENT_INCIDENT_DAYS * 24 * 60 * 60 * 1000
        /\ statusPage[k].status = "resolved"
        /\ Before(statusPage[k].id).kind = "json"
        /\ Before(statusPage[k].id).value.status = "investigating"
        /\ ~BelowMinimum(statusPage[k])

\* C16: once the status fetch of an invocation has failed, the invocation is
\* over and failed: no incident entry was written, no result or notification
\* was produced and no webhook call made, the rate-limit marker is as the
\* invocation found it, and the error is in the hands of the handler: fetch has
\* answered 500 (and written nothing), scheduled has recorded errors = 1.
C16_FailedFetchAborts ==
  effects.fetchErrors > 0 =>
    /\ pc = "done"
    /\ outcome = "failed"
    /\ effects.fetches = 1
    /\ kvIncident = atStart.incident
    /\ kvLastNotification = atStart.marker
    /\ effects.incidentPuts = 0
    /\ effects.markerPuts = 0
    /\ effects.posts = 0
    /\ results = <<>>
    /\ notifications = <<>>
    /\ handler = "fetch" => response = [status |-> 500] /\ kvMetricsData = atStart.metrics
    /\ handler = "scheduled" =>
          /\ response = Null
          /\ kvMetricsData.kind = "json"
          /\ kvMetricsData.value.errors = 1

C16_Witness ==
  /\ effects.fetchErrors > 0
  /\ pc = "done"
  /\ handler = "fetch"
  /\ atStart.marker # NoValue
  /\ \E k \in 1..Len(statusPage) :
        /\ Processed(statusPage[k])
        /\ ~HadEntry(statusPage[k].id)
        /\ statusPage[k].status = "investigating"

\* the incident is on the page with this status
CurrentlyAt(id, status) ==
  \E k \in 1..Len(statusPage) : statusPage[k].id = id /\ statusPage[k].status = status

\* C12: in successive invocations over an unchanged page (no store entry
\* expires within them), an incident that an earlier returned pass classified,
\* unfiltered, at the status it still has is covered by no notification of the
\* current invocation, and the current invocation files it under no queue.
C12_NoDuplicateNotification ==
  \A h \in handled :
    CurrentlyAt(h.id, h.status) =>
      /\ NotificationsFor(h.id, AllKinds) = {}
      /\ h.id \notin Range(newIncidents) \cup Range(resolvedIncidents)
                       \cup Range(monitoringIncidents)
      /\ \A k \in 1..Len(statusUpdates) : statusUpdates[k].incident # h.id
      /\ \A r \in Range(results) : r.id = h.id => r.action \in {"none", "filtered"}

C12_Witness ==
  /\ Completed
  /\ prev.outcome = "completed"
  /\ now - prev.at >= RATE_LIMIT_COOLDOWN_MS
  /\ \E h \in handled :
        /\ CurrentlyAt(h.id, h.status)
        /\ \E k \in 1..Len(prev.notifications) : h.id \in Range(prev.notifications[k].ids)
        /\ \E r \in Range(results) : r.id = h.id /\ r.action = "none"

\* the invocation ended without reaching the return statement of the pass
Aborted == pc = "done" /\ outcome \in {"failed", "unhandled", "crashed"}

QueuedIds ==
  Range(newIncidents) \cup Range(resolvedIncidents) \cup Range(monitoringIncidents)
    \cup {statusUpdates[k].incident : k \in 1..Len(statusUpdates)}

\* C11: when an invocation is cut short (a store call fails, or the platform
\* ends it), every incident whose store entry the invocation rewrote after
\* putting it on a notification queue has had that notification dispatched.
\* (The pass writes the entry inside the loop, before any dispatch starts.)
C11_NoRecordWithoutDispatch ==
  Aborted =>
    \A id \in QueuedIds :
      kvIncident[id] # Before(id) =>
        \E k \in NotificationsFor(id, AllKinds) : k <= Len(sendResults)

\* C17: a scheduled invocation in which the status fetch or a store call
\* failed has returned normally and metrics:data records the error.
\* (updateMetrics in the catch block is awaited unguarded: when it rejects,
\* the rejection leaves the handler and nothing is recorded.)
C17_ScheduledSwallows ==
  (handler = "scheduled" /\ pc = "done" /\ outcome \in {"failed", "unhandled"}) =>
    /\ outcome = "failed"
    /\ kvMetricsData.kind = "json"
    /\ kvMetricsData.value.errors >= 1

\* C18: a request to a pathname other than /health with a method other than
\* GET is answered 405 at once, with no fetch, store access or webhook call; a
\* GET is answered 200 with the results of the pass (none when the pass was
\* rate limited) when the pass returns, and 500 when the status fetch or a
\* store call of the pass fails.
C18_TriggerResponses ==
  (handler = "fetch" /\ request.pathname # "/health") =>
    /\ request.method # "GET" =>
          /\ pc = "done"
          /\ response = [status |-> 405]
          /\ effects = NoEffects
          /\ <<kvIncident, kvMetricsData, kvLastNotification>>
               = <<atStart.incident, atStart.metrics, atStart.marker>>
          /\ notifications = <<>>
    /\ (request.method = "GET" /\ pc = "done") =>
          /\ outcome \in {"completed", "rate_limited", "failed", "crashed"}
          /\ outcome \in {"completed", "rate_limited"} =>
                response = [status |-> 200, totalIncidents |-> Len(results),
                            results |-> results]
          /\ outcome = "failed" => response = [status |-> 500]

C18_Witness ==
  /\ handler = "fetch"
  /\ request = [method |-> "GET", pathname |-> "/"]
  /\ pc = "done"
  /\ outcome = "failed"
  /\ effects.fetchErrors = 0
  /\ effects.incidentPuts >= 1
  /\ response = [status |-> 500]

\* C19: a dispatch makes exactly as many webhook calls as it takes to reach the
\* first accepted attempt, never more than MAX_RETRIES, and fails exactly when
\* none of the MAX_RETRIES attempts is accepted; and every step of a handler
\* strictly decreases a natural-number measure, so every invocation ends.
C19_Calls ==
  /\ Len(webhook) = Len(sendResults)
  /\ \A k \in 1..Len(sendResults) :
        /\ sendResults[k].calls <= MAX_RETRIES
        /\ sendResults[k].ok <=> webhook[k] <= MAX_RETRIES
        /\ sendResults[k].ok => sendResults[k].calls = webhook[k]
        /\ ~sendResults[k].ok => sendResults[k].calls = MAX_RETRIES
  /\ effects.posts <= MAX_RETRIES * Len(sendResults)
  /\ Measure >= 0

C19_BoundedRetry == []C19_Calls /\ [][Measure' < Measure]_vars

C19_Witness ==
  /\ pc = "done"
  /\ \E j, k \in 1..Len(sendResults) :
        /\ ~sendResults[j].ok /\ sendResults[j].calls = MAX_RETRIES
        /\ sendResults[k].ok /\ sendResults[k].calls = 2

\* C20: a dispatch whose attempts all fail has waited 1, 2 and 4 seconds
\* between them.  (withRetry sleeps Math.pow(2, i) * 1000 ms after failed
\* attempt i = 0 and i = 1 only, and rethrows at once after attempt i = 2.)
C20_ThreeDelays ==
  \A k \in 1..Len(sendResults) :
    ~sendResults[k].ok => sendResults[k].delays = <<1000, 2000, 4000>>

\* C10: what the webhook never accepted is queued again: after a pass that
\* returns, every incident whose last notification failed, and that the pass
\* processed at the status that notification was about, is covered by a
\* notification of this pass.
C10_FailedDispatchRequeued ==
  Completed =>
    \A u \in undelivered :
      (\E inc \in Range(statusPage) :
         inc.id = u.id /\ inc.status = u.status /\ Processed(inc)) =>
        NotificationsFor(u.id, AllKinds) # {}

\* C21: a stored value that is a bare timestamp string is read back as
\* {status: "identified", timestamp: that string}; the pass goes on, and an
\* incident with such an entry that the pass classifies is never put on the
\* new-incident queue: its result shows stored status "identified" and its
\* classification is the one of an existing entry with status "identified".
C21_LegacyValueIsIdentified ==
  \A inc \in Range(statusPage) :
    Before(inc.id).kind = "text" =>
      /\ inc.id \in DOMAIN storedIncidentsMap =>
           storedIncidentsMap[inc.id]
             = [status |-> "identified", timestamp |-> Before(inc.id).text]
      /\ inc.id \notin Range(newIncidents)
      /\ NotificationsFor(inc.id, {"new", "digest"}) = {}
      /\ \A r \in Range(results) :
           r.id = inc.id =>
             /\ r.storedStatus = "identified"
             /\ r.action # "new_incident_notification"
             /\ r.action = IF BelowMinimum(inc) THEN "filtered"
                           ELSE IF inc.status = "resolved" THEN "resolution_notification"
                           ELSE IF inc.status = "monitoring" THEN "monitoring_notification"
                           ELSE "none"

C21_Witness ==
  /\ Completed
  /\ \E inc \in Range(statusPage) :
       /\ Before(inc.id).kind = "text"
       /\ Processed(inc)
       /\ inc.status = "investigating"
       /\ ResultOf(inc.id).storedStatus = "identified"
       /\ kvIncident[inc.id] = Json([status |-> "investigating", timestamp |-> now])

\* C25: an incident the pass processes whose stored status exists and is not
\* "monitoring" and whose current status is "monitoring" is covered by exactly
\* one monitoring notification and by no other notification, and is not on the
\* status-update queue, whatever its stored status (stored "resolved" included).
C25_MonitoringPrecedesGeneric ==
  Completed =>
    \A inc \in Range(statusPage) :
      (/\ Processed(inc) /\ HadEntry(inc.id)
       /\ StatusBefore(inc.id) # "monitoring"
       /\ inc.status = "monitoring") =>
        /\ Cardinality(NotificationsFor(inc.id, {"monitoring"})) = 1
        /\ NotificationsFor(inc.id, AllKinds \ {"monitoring"}) = {}
        /\ \A k \in 1..Len(statusUpdates) : statusUpdates[k].incident # inc.id
        /\ ResultOf(inc.id).action = "monitoring_notification"

C25_Witness ==
  /\ Completed
  /\ \E inc \in Range(statusPage) :
       /\ Processed(inc)
       /\ Before(inc.id).kind = "json"
       /\ Before(inc.id).value.status = "resolved"
       /\ inc.status = "monitoring"
       /\ NotificationsFor(inc.id, {"monitoring"}) # {}

\* the priority order of the statuses: investigating < identified <
\* monitoring < resolved, anything else below them all
Rank(status) ==
  IF status = "investigating" THEN 1
  ELSE IF status = "identified" THEN 2
  ELSE IF status = "monitoring" THEN 3
  ELSE IF status = "resolved" THEN 4
  ELSE 0

\* the transition of the incident is one the generic status-change rule
\* notifies
Progressed(inc) ==
  /\ Processed(inc) /\ HadEntry(inc.id)
  /\ StatusBefore(inc.id) # inc.status
  /\ ~(StatusBefore(inc.id) # "resolved" /\ inc.status = "resolved")
  /\ ~(StatusBefore(inc.id) # "monitoring" /\ inc.status = "monitoring")
  /\ Rank(inc.status) > Rank(StatusBefore(inc.id))

\* C26: a pass that returns has queued a status-update notification for an
\* incident of the page exactly when the incident has a stored status that
\* differs from the current one, neither the resolved nor the monitoring rule
\* applies and the current status ranks above the stored one (then exactly one,
\* carrying the stored status as old status); and every processed incident
\* whose stored status differs from the current one is stored at the current
\* status, notified or not.
C26_StatusProgressed ==
  Completed =>
    \A inc \in Range(statusPage) :
      /\ NotificationsFor(inc.id, {"status"}) # {} <=> Progressed(inc)
      /\ Progressed(inc) =>
           /\ Cardinality(NotificationsFor(inc.id, {"status"})) = 1
           /\ \A k \in NotificationsFor(inc.id, {"status"}) :
                notifications[k].oldStatus = StatusBefore(inc.id)
           /\ ResultOf(inc.id).action = "status_updated"
      /\ (Processed(inc) /\ HadEntry(inc.id) /\ StatusBefore(inc.id) # inc.status) =>
           kvIncident[inc.id] = Json([status |-> inc.status, timestamp |-> now])

C26_Witness ==
  /\ Completed
  /\ \E inc \in Range(statusPage) :
       /\ Progressed(inc)
       /\ StatusBefore(inc.id) = "postmortem"
       /\ inc.status = "investigating"
       /\ NotificationsFor(inc.id, {"status"}) # {}

\* C27: an incident of the page whose stored status equals its current status
\* keeps its stored value as the invocation found it (status and timestamp),
\* is on no queue and is covered by no notification; when the pass classifies
\* it unfiltered its action is none.
C27_UnchangedIsUntouched ==
  \A inc \in Range(statusPage) :
    (HadEntry(inc.id) /\ StatusBefore(inc.id) = inc.status) =>
      /\ kvIncident[inc.id] = Before(inc.id)
      /\ inc.id \notin QueuedIds
      /\ NotificationsFor(inc.id, AllKinds) = {}
      /\ \A r \in Range(results) : r.id = inc.id => r.action \in {"none", "filtered"}
      /\ (Completed /\ Processed(inc)) => ResultOf(inc.id).action = "none"

C27_Witness ==
  /\ Completed
  /\ effects.incidentPuts > 0
  /\ Len(notifications) > 0
  /\ \E inc \in Range(statusPage) :
       /\ Processed(inc)
       /\ Before(inc.id).kind = "json"
       /\ Before(inc.id).value.status = inc.status
       /\ inc.status = "monitoring"

\* C28: a pass that returns leaves an incident it processed that had no store
\* entry and is already "resolved" stored at status "resolved", with action
\* none and no notification; and no later invocation over the unchanged page
\* queues a notification for it.
C28_ResolvedAtFirstSight ==
  /\ Completed =>
       \A inc \in Range(statusPage) :
         (Processed(inc) /\ ~HadEntry(inc.id) /\ inc.status = "resolved") =>
           /\ kvIncident[inc.id] = Json([status |-> "resolved", timestamp |-> now])
           /\ ResultOf(inc.id).action = "none"
           /\ NotificationsFor(inc.id, AllKinds) = {}
  /\ \A inc \in Range(statusPage) :
       (/\ inc.status = "resolved"
        /\ [id |-> inc.id, status |-> "resolved"] \in handled
        /\ Before(inc.id).kind = "json"
        /\ Before(inc.id).value.timestamp > T0 - RATE_LIMIT_COOLDOWN_MS) =>
         /\ inc.id \notin QueuedIds
         /\ NotificationsFor(inc.id, AllKinds) = {}
         /\ kvIncident[inc.id] = Before(inc.id)

C28_Witness ==
  /\ Completed
  /\ prev.outcome = "completed"
  /\ \E inc \in Range(statusPage) :
       /\ inc.status = "resolved"
       /\ Processed(inc)
       /\ [id |-> inc.id, status |-> "resolved"] \in handled
       /\ kvIncident[inc.id] = Json([status |-> "resolved", timestamp |-> prev.at])
       /\ prev.at < now
       /\ ResultOf(inc.id).action = "none"

\* C29: while the pass is still classifying, before the notification promises
\* of the run exist, it has written no incident entry.  (storeIncident is
\* awaited inside the classification loop, lines 816-838; the notifications
\* are created after the loop, lines 848-895.)
C29_NoWriteBeforeDispatch ==
  pc = "classify" => effects.incidentPuts = 0 /\ kvIncident = atStart.incident

\* C22: in a pass that returns with a digest notification, the result of every
\* incident the digest covers reports the action digest_notification.
\* (result.action is set to new_incident_notification inside the loop, line
\* 814, before the digest decision of line 852, and is not touched again.)
C22_DigestActionReported ==
  Completed =>
    \A k \in 1..Len(notifications) :
      notifications[k].kind = "digest" =>
        \A id \in Range(notifications[k].ids) :
          ResultOf(id).action = "digest_notification"

\* C23: every new-incident, status-update, monitoring and resolution message
\* handed to sendNotification names the identifier of its incident as thread
\* key.  (No message built in index.ts has a thread field and the webhook URL
\* is passed on unchanged: no message names any thread.)
C23_ThreadKeyIsIncidentId ==
  \A k \in 1..Len(posted) :
    posted[k].cards.kind \in {"new", "status", "monitoring", "resolved"} =>
      threadKey(posted[k]) = posted[k].cards.ids[1]

\* the time from start to resolution that the resolution card of an incident
\* shows: up to resolved_at, or up to now when the incident carries none
ShownDuration(inc) ==
  (IF inc.resolved_at # NoTime THEN inc.resolved_at ELSE now) - inc.started_at

\* C24: the duration on every resolution message is, for d >= 0 ms from start
\* to resolution, H = d div 3600000 and M = (d - H * 3600000) div 60000,
\* "<H>h <M>m" when H > 0 and "<M>m" otherwise: 125 minutes give "2h 5m", 45
\* minutes "45m", and one ms short of a full minute or hour is not rounded up.
C24_DurationRendering ==
  \A k \in 1..Len(posted) :
    posted[k].cards.kind = "resolved" =>
      \A inc \in Range(statusPage) :
        inc.id = posted[k].cards.ids[1] =>
          LET d == ShownDuration(inc)
              H == d \div 3600000
              M == (d - H * 3600000) \div 60000
              shown == posted[k].cards.duration
          IN /\ d >= 0
             /\ shown = IF H > 0 THEN ToString(H) \o "h " \o ToString(M) \o "m"
                        ELSE ToString(M) \o "m"
             /\ d = 125 * 60000 => shown = "2h 5m"
             /\ d = 45 * 60000 => shown = "45m"
             /\ d = 59999 => shown = "0m"
             /\ d = 3599999 => shown = "59m"
             /\ d = 7199999 => shown = "1h 59m"
             /\ d = 3600000 => shown = "1h 0m"

C24_Witness ==
  /\ Completed
  /\ \E k \in 1..Len(posted) :
       /\ posted[k].cards.kind = "resolved"
       /\ posted[k].cards.duration = "2h 5m"
  /\ \E inc \in Range(statusPage) : ShownDuration(inc) = 125 * 60000

\* the second invocation has read the rate-limit marker
PeerHasRead == peer.pc \notin {"idle", "rate"}

\* both invocations found, for an incident, the entry that was in the store
\* before either of them wrote
SameRead(id) ==
  /\ storedIncidentsMap[id] = getStoredIncident(Before(id))
  /\ peer.storedIncidentsMap[id] = getStoredIncident(Before(id))

\* the kinds of notification an invocation queued for an incident
KindsFor(id, queued) ==
  {queued[k].kind : k \in {j \in 1..Len(queued) : id \in Range(queued[j].ids)}}

\* C30: a second invocation may start while one is running, and the marker is
\* the only thing that can hold it back.  It is skipped exactly when the marker
\* value it read is less than the cooldown old, so when it read the value the
\* first invocation read and that one went on, it goes on too; and for an
\* incident whose stored entry both read before either wrote it, both put the
\* incident in the same queue and both queue the same notification for it: a
\* new one when there was no entry and the incident is unresolved, a
\* resolution when the entry was unresolved and the incident is resolved.
C30_OverlapNotExcluded ==
  /\ peer.pc # "idle" => pc # "idle"
  /\ PeerHasRead =>
       (peer.outcome = "rate_limited" <=>
          /\ peer.marker.kind = "text"
          /\ now - peer.marker.text < RATE_LIMIT_COOLDOWN_MS)
  /\ ( /\ PeerHasRead
       /\ pc \notin {"idle", "rate"}
       /\ outcome # "rate_limited"
       /\ peer.marker = atStart.marker )
     => peer.outcome # "rate_limited"
  /\ ( pc \in {"dispatch", "done"} /\ peer.pc \in {"dispatch", "done"} ) =>
       \A inc \in Range(recentIncidents) \cap Range(peer.recentIncidents) :
         SameRead(inc.id) =>
           LET stored == getStoredIncident(Before(inc.id)) IN
           /\ inc.id \in Range(newIncidents) <=> inc.id \in Range(peer.newIncidents)
           /\ inc.id \in Range(resolvedIncidents)
                <=> inc.id \in Range(peer.resolvedIncidents)
           /\ inc.id \in Range(monitoringIncidents)
                <=> inc.id \in Range(peer.monitoringIncidents)
           /\ {u \in Range(statusUpdates) : u.incident = inc.id}
                = {u \in Range(peer.statusUpdates) : u.incident = inc.id}
           /\ KindsFor(inc.id, notifications) = KindsFor(inc.id, peer.notifications)
           /\ ( ~BelowMinimum(inc) /\ stored = Null /\ inc.status # "resolved" )
                => /\ inc.id \in Range(newIncidents)
                   /\ inc.id \in Range(peer.newIncidents)
                   /\ KindsFor(inc.id, notifications) \cap {"new", "digest"} # {}
           /\ ( /\ ~BelowMinimum(inc)
                /\ stored # Null
                /\ stored.status # "resolved"
                /\ inc.status = "resolved" )
                => /\ inc.id \in Range(resolvedIncidents)
                   /\ inc.id \in Range(peer.resolvedIncidents)
                   /\ "resolved" \in KindsFor(inc.id, notifications)

\* both invocations read the marker before either wrote it and both returned,
\* each having queued the new-incident notification of the same incident
C30_Witness ==
  /\ Completed
  /\ peer.pc = "done" /\ peer.outcome = "completed"
  /\ peer.marker = atStart.marker
  /\ \E inc \in Range(recentIncidents) :
       /\ SameRead(inc.id)
       /\ getStoredIncident(Before(inc.id)) = Null
       /\ "new" \in KindsFor(inc.id, notifications)
       /\ "new" \in KindsFor(inc.id, peer.notifications)
       /\ \E k \in 1..Len(posted) : posted[k].cards.kind = "new"
                                     /\ posted[k].cards.ids[1] = inc.id

\* the metrics record a call of updateMetrics finds: the stored one, or the
\* fresh one getMetrics makes up when there is none
FoundMetrics(data) ==
  IF data.kind = "json" THEN data.value
  ELSE [lastRun |-> now, notificationsSent |-> 0, incidentsProcessed |-> 0, errors |-> 0]

\* the step in which the catch block of scheduled records the error
ErrorRecorded == handler = "scheduled" /\ outcome # "failed" /\ outcome' = "failed"

\* C32: updateMetrics writes the record it found with the supplied fields
\* replaced and every other field as it was.  The error record of a failed
\* scheduled run is the record found (the stored one, or the one the run itself
\* had just written before its marker write failed) with errors = 1 and
\* nothing else changed; that step writes neither the rate-limit marker nor
\* any incident entry.  The record of a run that returns has the four fields
\* the run supplies.
C32_MetricsReadMergeWrite ==
  [][ /\ ErrorRecorded =>
           /\ kvIncident' = kvIncident
           /\ kvLastNotification' = kvLastNotification
           /\ kvMetricsData'.kind = "json"
           /\ \/ kvMetricsData'.value = [FoundMetrics(kvMetricsData) EXCEPT !.errors = 1]
              \/ /\ pc = "dispatch"
                 /\ kvMetricsData'.value =
                      [lastRun |-> now, notificationsSent |-> Len(notifications),
                       incidentsProcessed |-> Len(recentIncidents), errors |-> 1]
      /\ (pc = "dispatch" /\ outcome' = "completed") =>
           /\ kvMetricsData'.kind = "json"
           /\ DOMAIN kvMetricsData'.value =
                {"lastRun", "notificationsSent", "incidentsProcessed", "errors"}
           /\ kvMetricsData'.value.lastRun = now
           /\ kvMetricsData'.value.incidentsProcessed = Len(recentIncidents)
           /\ kvIncident' = kvIncident
    ]_vars

\* a scheduled run failed after it had written an incident entry; the stored
\* metrics record kept its lastRun, notificationsSent and incidentsProcessed
C32_Witness ==
  /\ pc = "done" /\ outcome = "failed" /\ handler = "scheduled"
  /\ atStart.metrics.kind = "json"
  /\ kvMetricsData.kind = "json"
  /\ kvMetricsData.value = [atStart.metrics.value EXCEPT !.errors = 1]
  /\ kvMetricsData.value.notificationsSent = 2
  /\ kvLastNotification = atStart.marker
  /\ kvIncident # atStart.incident

\* the identifiers of the feed's incidents that the pass has to look at
ProcessedIds == {inc.id : inc \in {i \in Range(statusPage) : Processed(i)}}

\* C33: when a pass that was not rate limited returns, every incident of the
\* feed inside the recency window and at or above the minimum impact has a
\* stored entry whose status (as getStoredIncident reads it) is the incident's
\* current status, and the entry of every other identifier is the one the
\* pass found.
C33_StoreMatchesFeed ==
  Completed =>
    /\ \A inc \in Range(statusPage) :
         Processed(inc) =>
           /\ kvIncident[inc.id] # NoValue
           /\ getStoredIncident(kvIncident[inc.id]).status = inc.status
    /\ \A id \in Ids \ ProcessedIds : kvIncident[id] = Before(id)

\* a pass returned after it recorded, without a notification, a status of
\* lower priority than the stored one, and left alone the entry of an incident
\* outside the window or below the minimum
C33_Witness ==
  /\ Completed
  /\ \E inc \in Range(statusPage) :
       /\ Processed(inc)
       /\ HadEntry(inc.id)
       /\ StatusBefore(inc.id) = "monitoring"
       /\ inc.status = "identified"
       /\ kvIncident[inc.id] = Json([status |-> "identified", timestamp |-> now])
  /\ \E inc \in Range(statusPage) :
       /\ ~Processed(inc)
       /\ HadEntry(inc.id)
       /\ getStoredIncident(Before(inc.id)).status # inc.status
       /\ kvIncident[inc.id] = Before(inc.id)

\* how many entries of the four queues name an incident
TimesQueued(id) ==
  Cardinality({k \in 1..Len(newIncidents) : newIncidents[k] = id})
  + Cardinality({k \in 1..Len(resolvedIncidents) : resolvedIncidents[k] = id})
  + Cardinality({k \in 1..Len(monitoringIncidents) : monitoringIncidents[k] = id})
  + Cardinality({k \in 1..Len(statusUpdates) : statusUpdates[k].incident = id})

\* the number of notifications the queues call for
DispatchesDue ==
  (IF Len(newIncidents) >= 3 THEN 1 ELSE Len(newIncidents))
  + Len(resolvedIncidents) + Len(monitoringIncidents) + Len(statusUpdates)

Unseen ==
  {inc.id : inc \in {i \in Range(statusPage) :
                       Processed(i) /\ ~HadEntry(i.id) /\ i.status # "resolved"}}

\* the incidents of the feed, inside the window, that the impact filter drops
FilteredOut == {inc \in Range(statusPage) : InWindow(inc) /\ BelowMinimum(inc)}

\* C36: once the queues are turned into notifications, the new-incident
\* notifications are decided by Unseen alone: with 3 or more there is exactly
\* one digest, it lists exactly the incidents of Unseen and there is no
\* individual new-incident notification; with fewer there is no digest and one
\* individual notification per incident of Unseen.  No filtered incident is
\* named by any notification.
C36_FilteredNotCounted ==
  (pc = "dispatch" \/ Completed) =>
    LET digests == {k \in 1..Len(notifications) : notifications[k].kind = "digest"}
        singles == {k \in 1..Len(notifications) : notifications[k].kind = "new"}
    IN /\ IF Cardinality(Unseen) >= DIGEST_THRESHOLD
          THEN /\ Cardinality(digests) = 1
               /\ singles = {}
               /\ \A k \in digests : Range(notifications[k].ids) = Unseen
          ELSE /\ digests = {}
               /\ Cardinality(singles) = Cardinality(Unseen)
               /\ {notifications[k].ids[1] : k \in singles} = Unseen
       /\ \A inc \in FilteredOut : NotificationsFor(inc.id, AllKinds) = {}

\* the feed had three incidents without a stored entry and unresolved, one of
\* them below the minimum impact: the run that returned sent two individual
\* notifications and no digest
C36_Witness ==
  /\ Completed
  /\ \E inc \in FilteredOut : ~HadEntry(inc.id) /\ inc.status # "resolved"
  /\ Cardinality(Unseen) = 2
  /\ Cardinality({k \in 1..Len(notifications) : notifications[k].kind = "new"}) = 2
  /\ \A k \in 1..Len(notifications) : notifications[k].kind # "digest"

\* what the finished invocations reported for an incident
LoggedResults(id) ==
  UNION {{r \in Range(log[k].results) : r.id = id} : k \in 1..Len(log)}

\* every earlier invocation that looked at the incident found no stored entry
\* and filtered it, and at least one did
OnlyFilteredSoFar(id) ==
  /\ LoggedResults(id) # {}
  /\ \A r \in LoggedResults(id) : r.action = "filtered" /\ r.storedStatus = NullStatus

\* C35: an incident that every earlier run filtered by impact (none of them
\* found or wrote an entry) and that now passes the filter is handled as a
\* previously unseen incident: the run finds no stored entry, queues its
\* new-incident notification exactly when it is not resolved, and queues no
\* resolution, monitoring or status-progressed notification for it.
C35_FilteredThenNew ==
  (pc = "dispatch" \/ Completed) =>
    \A inc \in Range(statusPage) :
      (Processed(inc) /\ OnlyFilteredSoFar(inc.id)) =>
        /\ ~HadEntry(inc.id)
        /\ ResultOf(inc.id).storedStatus = NullStatus
        /\ ResultOf(inc.id).action =
             IF inc.status # "resolved" THEN "new_incident_notification" ELSE "none"
        /\ (NotificationsFor(inc.id, {"new", "digest"}) # {}) <=> inc.status # "resolved"
        /\ NotificationsFor(inc.id, {"resolved", "monitoring", "status"}) = {}
        /\ inc.id \notin Range(resolvedIncidents) \cup Range(monitoringIncidents)
             \cup {statusUpdates[k].incident : k \in 1..Len(statusUpdates)}

\* two runs filtered the incident while it went from investigating to
\* monitoring; the minimum was then removed and the third run sent the
\* new-incident notification
C35_Witness ==
  /\ Completed
  /\ Len(log) = 2
  /\ \E inc \in Range(statusPage) :
       /\ Processed(inc)
       /\ OnlyFilteredSoFar(inc.id)
       /\ inc.status = "monitoring"
       /\ minImpactLevel = ""
       /\ \E r \in Range(log[1].results) : r.id = inc.id /\ r.status = "investigating"
       /\ \E r \in Range(log[2].results) : r.id = inc.id /\ r.status = "monitoring"
       /\ NotificationsFor(inc.id, {"new"}) # {}
       /\ \E k \in 1..Len(posted) : posted[k].cards.kind = "new"

\* the logged invocations that queued a resolution notification for an incident
ResolutionRuns(id) ==
  {k \in 1..Len(log) :
     \E n \in Range(log[k].notifications) : n.kind = "resolved" /\ id \in Range(n.ids)}

\* the logged invocations that looked at the incident (did not filter it) and
\* saw it with a status other than resolved
OpenRuns(id) ==
  {k \in 1..Len(log) :
     \E r \in Range(log[k].results) :
       r.id = id /\ r.action # "filtered" /\ r.status # "resolved"}

\* the logged invocations that looked at the incident
SeenRuns(id) ==
  {k \in 1..Len(log) :
     \E r \in Range(log[k].results) : r.id = id /\ r.action # "filtered"}

\* C37: a run queues a resolution notification for an incident that an
\* earlier run already notified as resolved only if a run after that one saw
\* the incident with a status other than resolved.  A run that finds the entry
\* "resolved" and the incident "investigating" or "identified" records the new
\* status and queues nothing for the incident; and when the last run that
\* looked at the incident saw it not resolved, the run that next looks at it
\* and finds it resolved queues a resolution notification.
C37_SecondResolutionNeedsReopening ==
  (pc = "dispatch" \/ Completed) =>
    \A inc \in Range(statusPage) :
      /\ (NotificationsFor(inc.id, {"resolved"}) # {} /\ ResolutionRuns(inc.id) # {}) =>
           \E j \in OpenRuns(inc.id) : \A k \in ResolutionRuns(inc.id) : j > k
      /\ ( /\ Processed(inc)
           /\ HadEntry(inc.id)
           /\ StatusBefore(inc.id) = "resolved"
           /\ inc.status \in {"investigating", "identified"} ) =>
           /\ NotificationsFor(inc.id, AllKinds) = {}
           /\ kvIncident[inc.id] = Json([status |-> inc.status, timestamp |-> now])
      /\ ( /\ Processed(inc)
           /\ inc.status = "resolved"
           /\ SeenRuns(inc.id) # {}
           /\ \E j \in OpenRuns(inc.id) : \A k \in SeenRuns(inc.id) : j >= k ) =>
           NotificationsFor(inc.id, {"resolved"}) # {}

\* the first run notified the resolution, the second recorded the reopening
\* without a notification, the third notified the resolution again
C37_Witness ==
  /\ Completed
  /\ Len(log) = 2
  /\ \E inc \in Range(statusPage) :
       /\ ResolutionRuns(inc.id) = {1}
       /\ log[2].outcome = "completed"
       /\ log[2].notifications = <<>>
       /\ \E r \in Range(log[2].results) :
            /\ r.id = inc.id
            /\ r.storedStatus = "resolved"
            /\ r.status \in {"investigating", "identified"}
            /\ r.action = "none"
       /\ inc.status = "resolved"
       /\ NotificationsFor(inc.id, {"resolved"}) # {}

\* the notification a change of status from old to new calls for
ExpectedKind(old, new) ==
  IF old # "resolved" /\ new = "resolved" THEN "resolved"
  ELSE IF old # "monitoring" /\ new = "monitoring" THEN "monitoring"
  ELSE IF old # new /\ Rank(new) > Rank(old) THEN "status"
  ELSE "none"

\* the last logged invocation that was not rate limited, when every one after
\* it was rate limited and there is at least one such; 0 otherwise
LastBeforeCooldown ==
  LET full == {k \in 1..Len(log) : log[k].outcome # "rate_limited"}
  IN IF full = {} \/ Len(log) \in full THEN 0
     ELSE CHOOSE k \in full : \A j \in full : j <= k

\* C38: a rate-limited run reads and writes no incident entry and queues
\* nothing.  When the runs since the last run that returned were all rate
\* limited, the first run that is not rate limited finds, for an incident the
\* earlier run recorded, the status that run saw, and queues for an incident
\* still in the window the notification that the change from that status to
\* the current status calls for (none when the status is the same or of lower
\* priority).
C38_ChangeDeferredNotLost ==
  /\ outcome = "rate_limited" =>
       /\ kvIncident = atStart.incident
       /\ results = <<>>
       /\ notifications = <<>>
       /\ effects.incidentPuts = 0
  /\ ( (pc = "dispatch" \/ Completed) /\ LastBeforeCooldown > 0
       /\ log[LastBeforeCooldown].outcome = "completed" ) =>
       \A inc \in Range(statusPage) :
         \A r \in Range(log[LastBeforeCooldown].results) :
           (Processed(inc) /\ r.id = inc.id /\ r.action # "filtered") =>
             LET kind == ExpectedKind(r.status, inc.status) IN
             /\ ResultOf(inc.id).storedStatus = r.status
             /\ IF kind = "none" THEN NotificationsFor(inc.id, AllKinds) = {}
                ELSE /\ NotificationsFor(inc.id, {kind}) # {}
                     /\ NotificationsFor(inc.id, AllKinds \ {kind}) = {}

\* the first run announced the incident, the second was rate limited, and the
\* third, after the cooldown, sent the status update from investigating to
\* identified
C38_Witness ==
  /\ Completed
  /\ Len(log) = 2
  /\ log[1].outcome = "completed"
  /\ log[2].outcome = "rate_limited"
  /\ \E inc \in Range(statusPage) :
       /\ inc.status = "identified"
       /\ \E r \in Range(log[1].results) :
            r.id = inc.id /\ r.status = "investigating"
              /\ r.action = "new_incident_notification"
       /\ ResultOf(inc.id).storedStatus = "investigating"
       /\ NotificationsFor(inc.id, {"status"}) # {}
       /\ \E k \in 1..Len(posted) : posted[k].cards.kind = "status"

\* an entry was written for the incident at or after its start: when it
\* started, for the incident that started before the first invocation, or by
\* a logged invocation that looked at it
EverRecorded(inc) == inc.started_at < T0 \/ SeenRuns(inc.id) # {}

\* C39: an incident with a fixed started_at that is not in the future, which
\* an earlier run looked at, still has its stored entry in every later run
\* that processes it (the recency window ends before the entry expires), so no
\* such run classifies it as new; and every stored entry of an incident of the
\* feed outlives the incident's recency window.
C39_NoRenotificationByExpiry ==
  /\ \A inc \in Range(statusPage) :
       kvIncident[inc.id] # NoValue =>
         expiresAt(kvIncident[inc.id]) >= (inc.started_at + RECENT_INCIDENT_MS) \div 1000
  /\ (pc = "dispatch" \/ Completed) =>
       \A inc \in Range(statusPage) :
         (inc.started_at <= now /\ EverRecorded(inc)
            /\ inc.id \in {recentIncidents[k].id : k \in 1..Len(recentIncidents)}) =>
           /\ HadEntry(inc.id)
           /\ ResultOf(inc.id).action # "new_incident_notification"
           /\ inc.id \notin Range(newIncidents)
           /\ NotificationsFor(inc.id, {"new", "digest"}) = {}

\* the entry of the incident that started long ago has expired; the run that
\* returned did not look at the incident, which left the recency window long
\* before
C39_Witness ==
  /\ Completed
  /\ Len(log) >= 1
  /\ \E inc \in Range(statusPage) :
       /\ EverRecorded(inc)
       /\ kvIncident[inc.id] = NoValue
       /\ now >= inc.started_at + RECENT_INCIDENT_MS
       /\ Len(incidents) = 1
       /\ results = <<>>
       /\ notifications = <<>>

\* the status a stored value stands for
StatusOf(data) == IF data.kind = "json" THEN data.value.status ELSE "identified"

\* the incidents of a feed that a run looks at
Looked(page) == {inc \in Range(page) : Processed(inc)}

\* the notification a run owes an incident, given the entry it finds
KindAlone(inc, before) ==
  IF before = NoValue THEN (IF inc.status # "resolved" THEN "new" ELSE "none")
  ELSE ExpectedKind(StatusOf(before), inc.status)

\* the incident entries after a run over page that starts from the entries kv
AloneStore(page, kv) ==
  [id \in Ids |->
     IF \E inc \in Looked(page) :
          inc.id = id /\ (kv[id] = NoValue \/ StatusOf(kv[id]) # inc.status)
     THEN Json([status |-> (CHOOSE inc \in Looked(page) : inc.id = id).status,
                timestamp |-> now])
     ELSE kv[id]]

\* the notifications of a run over page that starts from the entries kv, as a
\* set of (kind, incidents)
AloneNotes(page, kv) ==
  LET fresh == {inc.id : inc \in {i \in Looked(page) : KindAlone(i, kv[i.id]) = "new"}}
  IN (IF Cardinality(fresh) >= DIGEST_THRESHOLD
      THEN {[kind |-> "digest", ids |-> fresh]}
      ELSE {[kind |-> "new", ids |-> {id}] : id \in fresh})
     \cup {[kind |-> KindAlone(inc, kv[inc.id]), ids |-> {inc.id}] :
             inc \in {i \in Looked(page) : KindAlone(i, kv[i.id]) \notin {"new", "none"}}}

\* the notifications an invocation queued, as a set of (kind, incidents)
NotesOf(queued) ==
  {[kind |-> queued[k].kind, ids |-> Range(queued[k].ids)] : k \in 1..Len(queued)}

\* the marker holds a run back
HeldBack(marker) ==
  marker.kind = "text" /\ now - marker.text < RATE_LIMIT_COOLDOWN_MS

\* the entries and notifications of a run over first followed, when it has
\* returned, by a run over second, both at the time now
RunsInTurn(first, second, kv, marker) ==
  LET skip1 == HeldBack(marker)
      notes1 == IF skip1 THEN {} ELSE AloneNotes(first, kv)
      kv1 == IF skip1 THEN kv ELSE AloneStore(first, kv)
      marker1 == IF notes1 # {} THEN Text(now) ELSE marker
      skip2 == HeldBack(marker1)
      notes2 == IF skip2 THEN {} ELSE AloneNotes(second, kv1)
      kv2 == IF skip2 THEN kv1 ELSE AloneStore(second, kv1)
  IN [kv |-> kv2, notes |-> notes1 \cup notes2]

\* the same with the rate-limit check of the second run left out
RunsInTurnUnthrottled(first, second, kv) ==
  [kv |-> AloneStore(second, AloneStore(first, kv)),
   notes |-> AloneNotes(first, kv) \cup AloneNotes(second, AloneStore(first, kv))]

\* both invocations returned, and they looked at different incidents
BothReturnedDisjoint ==
  /\ Completed
  /\ peer.pc = "done" /\ peer.outcome = "completed"
  /\ {recentIncidents[k].id : k \in 1..Len(recentIncidents)}
       \cap {peer.recentIncidents[k].id : k \in 1..Len(peer.recentIncidents)} = {}

\* what the two overlapping invocations left and queued
Overlapped ==
  [kv |-> kvIncident, notes |-> NotesOf(notifications) \cup NotesOf(peer.notifications)]

\* C31 as stated: when two overlapping runs that looked at different
\* incidents have returned, the incident entries and the notifications queued
\* are those of the two runs executed one after the other, in one order or the
\* other.  (It fails when both runs queue a notification: executed in turn, the
\* second run finds the marker the first has just written and is skipped.)
C31_EqualsRunsInTurn ==
  BothReturnedDisjoint =>
    \/ Overlapped = RunsInTurn(statusPage, peer.recentIncidents,
                               atStart.incident, atStart.marker)
    \/ Overlapped = RunsInTurn(peer.recentIncidents, statusPage,
                               atStart.incident, atStart.marker)

\* C31, amended: when two overlapping runs that looked at different incidents
\* have returned, the incident entries and the notifications queued are those
\* of the two runs executed one after the other, in either order, with the
\* second run not held back by the rate limiter; each run queued what it
\* would have queued alone.
C31_EqualsRunsInTurnUnthrottled ==
  BothReturnedDisjoint =>
    /\ Overlapped = RunsInTurnUnthrottled(statusPage, peer.recentIncidents,
                                          atStart.incident)
    /\ Overlapped = RunsInTurnUnthrottled(peer.recentIncidents, statusPage,
                                          atStart.incident)
    /\ NotesOf(notifications) = AloneNotes(statusPage, atStart.incident)
    /\ NotesOf(peer.notifications) = AloneNotes(peer.recentIncidents, atStart.incident)

\* both runs returned, each having written an entry and queued a
\* notification, the second for two incidents
C31_Witness ==
  /\ BothReturnedDisjoint
  /\ Len(recentIncidents) = 1
  /\ Len(peer.recentIncidents) = 2
  /\ notifications # <<>>
  /\ Len(peer.notifications) = 2
  /\ \A k \in 1..Len(recentIncidents) :
       kvIncident[recentIncidents[k].id] # Before(recentIncidents[k].id)
  /\ \A k \in 1..Len(peer.recentIncidents) :
       kvIncident[peer.recentIncidents[k].id] # Before(peer.recentIncidents[k].id)

====
